---- MODULE Spec2Model ----
(***************************************************************************)
(* QuizBank: question fingerprinting, text quality scoring, best-answer    *)
(* reconciliation and record merging of SupabaseQuizManager                *)
(* (src/database/supabase-manager.js).                                     *)
(*                                                                         *)
(* JavaScript strings are sequences of UTF-16 code units.                   *)
(* A value that may be missing is Null (the empty tuple) or Some(v); a     *)
(* tri-state correctness flag is Some(TRUE), Some(FALSE) or Null.  For the *)
(* points of a history entry, which the code compares with <, Null is      *)
(* undefined (the key is absent) and JsNull is the JSON value null.  A     *)
(* confidence score is a fraction <<num, den>> in lowest terms with        *)
(* den > 0, so that equal scores are equal values.                         *)
(***************************************************************************)
EXTENDS Integers, Sequences, FiniteSets, TLC

Null == <<>>
Some(v) == <<v>>

\* the JSON value null of a number field: a value apart from Null and from
\* every Some(v)
JsNull == <<0, 0>>

\* typeof v === 'number'
IsNumber(v) == Len(v) = 1

\* F(e), the way a const declaration works: e is evaluated once and F uses
\* its value
With(e, F(_)) == CHOOSE y \in {F(x) : x \in {e}} : TRUE

(***************************************************************************)
(* Characters and strings                                                  *)
(***************************************************************************)

\* JavaScript regex class \s (ASCII part)
IsSpace(c) == c \in {9, 10, 11, 12, 13, 32}

\* JavaScript regex class \d
IsDigit(c) == c \in 48..57

\* JavaScript regex class \w
IsWord(c) == (c \in 48..57) \/ (c \in 65..90) \/ (c = 95) \/ (c \in 97..122)

\* String.prototype.toLowerCase, one code unit
LowerChar(c) == IF c \in 65..90 THEN c + 32 ELSE c

\* String.prototype.toLowerCase
ToLowerCase(s) == With(s, LAMBDA str : [i \in 1..Len(str) |-> LowerChar(str[i])])

RECURSIVE SkipSpaces(_)
SkipSpaces(s) ==
    IF s # <<>> /\ IsSpace(Head(s)) THEN SkipSpaces(Tail(s)) ELSE s

\* s.replace(/\s+/g, ' '): the first character of each whitespace run
\* becomes a space, the rest of the run is dropped
CollapseWhitespace(s) ==
    With(s, LAMBDA str :
        SelectSeq([i \in 1..Len(str) |->
                      IF ~IsSpace(str[i]) THEN str[i]
                      ELSE IF i > 1 /\ IsSpace(str[i - 1]) THEN 0 - 1
                      ELSE 32],
                  LAMBDA c : c >= 0))

RECURSIVE TrimRight(_)
TrimRight(s) ==
    IF s # <<>> /\ IsSpace(s[Len(s)]) THEN TrimRight(SubSeq(s, 1, Len(s) - 1)) ELSE s

\* String.prototype.trim
Trim(s) == With(s, LAMBDA str : With(SkipSpaces(str), TrimRight))

\* s.startsWith(p)
StartsWith(s, p) == Len(s) >= Len(p) /\ SubSeq(s, 1, Len(p)) = p

\* s.includes(p)
Includes(s, p) ==
    \E i \in 1..(Len(s) - Len(p) + 1) : SubSeq(s, i, i + Len(p) - 1) = p

\* Number -> decimal string, as a template literal `${n}` formats a
\* non-negative integer
RECURSIVE DecimalString(_)
DecimalString(n) ==
    IF n < 10 THEN <<48 + n>>
    ELSE DecimalString(n \div 10) \o <<48 + (n % 10)>>

\* Lexicographic order on code units: the default comparison of
\* Array.prototype.sort on strings
RECURSIVE StrLess(_, _)
StrLess(a, b) ==
    IF b = <<>> THEN FALSE
    ELSE IF a = <<>> THEN TRUE
    ELSE IF Head(a) # Head(b) THEN Head(a) < Head(b)
    ELSE StrLess(Tail(a), Tail(b))

\* insert x in the sorted sequence s, after the elements not greater than x
RECURSIVE InsertSorted(_, _)
InsertSorted(x, s) ==
    IF s = <<>> THEN <<x>>
    ELSE IF StrLess(x, Head(s)) THEN <<x>> \o s
    ELSE <<Head(s)>> \o InsertSorted(x, Tail(s))

\* Array.prototype.sort() on an array of strings
RECURSIVE SortStrings(_)
SortStrings(s) ==
    IF s = <<>> THEN <<>>
    ELSE InsertSorted(s[Len(s)], SortStrings(SubSeq(s, 1, Len(s) - 1)))

\* Array.prototype.join(sep)
RECURSIVE Join(_, _)
Join(s, sep) ==
    IF s = <<>> THEN <<>>
    ELSE IF Len(s) = 1 THEN s[1]
    ELSE s[1] \o sep \o Join(Tail(s), sep)

(***************************************************************************)
(* simpleHash: 32-bit accumulator, kept as two 16-bit halves <<hi, lo>>    *)
(* of the unsigned value so that no intermediate exceeds 31 bits.          *)
(***************************************************************************)

Half == 65536

\* one round: hash = ((hash << 5) - hash) + char; hash = hash & hash
HashStep(h, c) ==
    With(31 * h[2] + c, LAMBDA lo :
        <<(31 * h[1] + (lo \div Half)) % Half, lo % Half>>)

\* the rounds for the characters str[from..to], in order, starting from h:
\* those of the first half of the range, then those of the second half
RECURSIVE HashLoop(_, _, _, _)
HashLoop(h, str, from, to) ==
    IF from > to THEN h
    ELSE IF from = to THEN HashStep(h, str[from])
    ELSE With(HashLoop(h, str, from, (from + to) \div 2),
              LAMBDA left : HashLoop(left, str, (from + to) \div 2 + 1, to))

\* Math.abs of the signed 32-bit value held in <<hi, lo>>
Abs32(h) ==
    With(h, LAMBDA v :
        IF v[1] < 32768 THEN v
        ELSE IF v[2] = 0 THEN <<Half - v[1], 0>>
        ELSE <<Half - 1 - v[1], Half - v[2]>>)

Base36Digit(d) == IF d < 10 THEN 48 + d ELSE 87 + d

\* Number.prototype.toString(36) of a non-negative value <<hi, lo>>
RECURSIVE ToString36(_)
ToString36(h) ==
    With(h, LAMBDA v :
        LET t  == (v[1] % 36) * Half + v[2]
            q  == <<v[1] \div 36, t \div 36>>
            r  == t % 36
        IN  IF q = <<0, 0>> THEN <<Base36Digit(r)>>
            ELSE ToString36(q) \o <<Base36Digit(r)>>)

simpleHash(str) ==
    With(str, LAMBDA s :
        ToString36(Abs32(HashLoop(<<0, 0>>, s, 1, Len(s)))))

\* opt.toLowerCase().replace(/[^\w\s]/g, '').trim()
NormalizeOption(opt) ==
    Trim(SelectSeq(ToLowerCase(opt), LAMBDA c : IsWord(c) \/ IsSpace(c)))

\* questionText.replace(/\s+/g,' ').replace(/[^\w\s\?\.!]/g,'')
\*             .toLowerCase().trim()
CleanText(questionText) ==
    Trim(ToLowerCase(SelectSeq(CollapseWhitespace(questionText),
        LAMBDA c : IsWord(c) \/ IsSpace(c) \/ c \in {63, 46, 33})))

\* variant: the options are joined in the order given
generateQuestionHash_unsorted(questionText, questionType, options) ==
    LET base == questionType \o <<58>> \o CleanText(questionText)
        hashInput ==
            IF options # Null
            THEN base \o <<58>> \o
                 Join([i \in 1..Len(options[1]) |->
                          NormalizeOption(options[1][i])], <<124>>)
            ELSE base
    IN  simpleHash(hashInput)

\* options is Null or Some(array of strings); an empty array is truthy
generateQuestionHash(questionText, questionType, options) ==
    LET base == questionType \o <<58>> \o CleanText(questionText)
        hashInput ==
            IF options # Null
            THEN base \o <<58>> \o
                 Join(SortStrings([i \in 1..Len(options[1]) |->
                                      NormalizeOption(options[1][i])]), <<124>>)
            ELSE base
    IN  simpleHash(hashInput)

(***************************************************************************)
(* calculateTextQuality                                                    *)
(***************************************************************************)

StrQuestionSp == <<81, 117, 101, 115, 116, 105, 111, 110, 32>>          \* "Question "
StrQuestionID == <<81, 117, 101, 115, 116, 105, 111, 110, 32, 73, 68>>  \* "Question ID"

\* questionText.match(/^Question \d+$/)
IsPlaceholderText(s) ==
    /\ StartsWith(s, StrQuestionSp)
    /\ Len(s) > Len(StrQuestionSp)
    /\ \A i \in (Len(StrQuestionSp) + 1)..Len(s) : IsDigit(s[i])

Min(a, b) == IF a < b THEN a ELSE b
Max(a, b) == IF a > b THEN a ELSE b

\* variant: no bonus for a text of more than 20 characters
calculateTextQuality_noLengthBonus(questionText, source) ==
    LET s0 == IF source = "dom" THEN 100
              ELSE IF source = "canvas_api" THEN 50
              ELSE IF source = "placeholder" THEN 10
              ELSE 0
        s1 == s0 + Min(Len(questionText), 200)
        s2 == IF IsPlaceholderText(questionText) THEN s1 - 50 ELSE s1
        s3 == IF Includes(questionText, StrQuestionID) THEN s2 - 30 ELSE s2
        s4 == IF Includes(questionText, <<63>>) THEN s3 + 20 ELSE s3
    IN  Max(0, s4)

\* variant: the score is returned as summed
calculateTextQuality_unclamped(questionText, source) ==
    LET s0 == IF source = "dom" THEN 100
              ELSE IF source = "canvas_api" THEN 50
              ELSE IF source = "placeholder" THEN 10
              ELSE 0
        s1 == s0 + Min(Len(questionText), 200)
        s2 == IF IsPlaceholderText(questionText) THEN s1 - 50 ELSE s1
        s3 == IF Includes(questionText, StrQuestionID) THEN s2 - 30 ELSE s2
        s4 == IF Includes(questionText, <<63>>) THEN s3 + 20 ELSE s3
        s5 == IF Len(questionText) > 20 THEN s4 + 10 ELSE s4
    IN  s5

calculateTextQuality(questionText, source) ==
    LET s0 == IF source = "dom" THEN 100
              ELSE IF source = "canvas_api" THEN 50
              ELSE IF source = "placeholder" THEN 10
              ELSE 0
        s1 == s0 + Min(Len(questionText), 200)
        s2 == IF IsPlaceholderText(questionText) THEN s1 - 50 ELSE s1
        s3 == IF Includes(questionText, StrQuestionID) THEN s2 - 30 ELSE s2
        s4 == IF Includes(questionText, <<63>>) THEN s3 + 20 ELSE s3
        s5 == IF Len(questionText) > 20 THEN s4 + 10 ELSE s4
    IN  Max(0, s5)

(***************************************************************************)
(* Confidence scores as fractions                                          *)
(***************************************************************************)

RECURSIVE GCD(_, _)
GCD(a, b) == IF b = 0 THEN a ELSE GCD(b, a % b)

AbsInt(n) == IF n < 0 THEN 0 - n ELSE n

\* the number n / d (d > 0) in lowest terms
Frac(n, d) == LET g == GCD(AbsInt(n), d) IN <<n \div g, d \div g>>

Zero == Frac(0, 1)
One == Frac(1, 1)

FracLess(a, b) == a[1] * b[2] < b[1] * a[2]
FracMin(a, b) == IF FracLess(b, a) THEN b ELSE a
FracMax(a, b) == IF FracLess(a, b) THEN b ELSE a

(***************************************************************************)
(* The remote store behind the qb_* procedures: question rows, submission  *)
(* rows (the id of a row is its position) and one best answer per hash.    *)
(***************************************************************************)

VARIABLES
    questions,      \* sequence of question rows, in insertion order
    submissions,    \* sequence of submission rows; id = index
    bestAnswers,    \* function: question hash -> best answer row
    history,        \* the quiz submission history Canvas returns
    rpc,            \* the store procedures called by the last operation
    op,             \* the last operation: its name, arguments and locals
    ops,            \* number of operations performed
    pending,        \* the calls suspended at an await, oldest first
    page            \* the quiz page of the tab and the elements of its document

vars ==
    <<questions, submissions, bestAnswers, history, rpc, op, ops, pending, page>>

\* qb_get_best_answer: the row stored for the hash, or Null
qbGetBestAnswer(best, questionHash) ==
    IF questionHash \in DOMAIN best THEN Some(best[questionHash]) ELSE Null

\* qb_update_best_answer: upsert of the best answer row of a hash
qbUpdateBestAnswer(best, questionHash, row) ==
    [h \in (DOMAIN best) \cup {questionHash} |->
        IF h = questionHash THEN row ELSE best[h]]

\* qb_save_submission: append one row; the stored row gets the next id
qbSaveSubmission(subs, row) == Append(subs, row)

\* qb_merge_question_records: submissions and best answer of oldHash are
\* re-pointed to newHash, then the question row of oldHash is deleted
qbMergeQuestions(qs, oldHash) ==
    SelectSeq(qs, LAMBDA q : q.question_hash # oldHash)

qbMergeSubmissions(subs, oldHash, newHash) ==
    [i \in 1..Len(subs) |->
        IF subs[i].question_hash = oldHash
        THEN [subs[i] EXCEPT !.question_hash = newHash]
        ELSE subs[i]]

qbMergeBestAnswers(best, oldHash, newHash) ==
    IF oldHash \in DOMAIN best
    THEN [h \in ((DOMAIN best) \ {oldHash}) \cup {newHash} |->
            IF h = newHash THEN best[oldHash] ELSE best[h]]
    ELSE best

(***************************************************************************)
(* updateBestAnswer                                                        *)
(***************************************************************************)

\* JavaScript truthiness of a nullable number
TruthyNum(v) == IsNumber(v) /\ v[1] # 0

\* the confidence score computed from a submission
confidenceScore(submission) ==
    LET c0 == IF submission.is_correct = Some(TRUE) THEN One ELSE Zero
        c1 == IF /\ TruthyNum(submission.points_earned)
                 /\ TruthyNum(submission.points_possible)
                 /\ submission.points_possible[1] > 0
              THEN FracMin(One, Frac(submission.points_earned[1],
                                     submission.points_possible[1]))
              ELSE c0
    IN  FracMax(Zero, FracMin(One, c1))

\* variant: every submission replaces the stored best answer
isBetterThanCurrent_always(currentBest, confidence) == TRUE

\* variant: >= in place of >
isBetterThanCurrent_orEqual(currentBest, confidence) ==
    \/ currentBest = Null
    \/ ~FracLess(confidence, currentBest[1].confidence_score)

\* !currentBest || confidenceScore > (currentBest.confidence_score || 0)
isBetterThanCurrent(currentBest, confidence) ==
    \/ currentBest = Null
    \/ FracLess(currentBest[1].confidence_score, confidence)

\* the write updateBestAnswer makes once qb_get_best_answer has returned
\* currentBest: <<>> or one qb_update_best_answer
updateCallsFor(currentBest, questionHash, submission, submissionId) ==
    LET confidence == confidenceScore(submission)
    IN  IF isBetterThanCurrent(currentBest, confidence)
        THEN << [name |-> "qb_update_best_answer",
                 question_hash |-> questionHash,
                 row |-> [answer_text |-> submission.user_answer,
                          answer_fields |-> submission.answer_fields,
                          confidence_score |-> confidence,
                          source_submission_id |-> Some(submissionId)]] >>
        ELSE <<>>

\* the calls updateBestAnswer makes when nothing else runs between its
\* qb_get_best_answer and its write
updateBestAnswerCalls(best, questionHash, submission, submissionId) ==
    updateCallsFor(qbGetBestAnswer(best, questionHash), questionHash,
                   submission, submissionId)

RECURSIVE ApplyBestAnswerCalls(_, _)
ApplyBestAnswerCalls(best, calls) ==
    IF calls = <<>> THEN best
    ELSE ApplyBestAnswerCalls(
            qbUpdateBestAnswer(best, Head(calls).question_hash, Head(calls).row),
            Tail(calls))

(***************************************************************************)
(* processCanvasSubmissionsWithQuestionData: preparation                   *)
(***************************************************************************)

\* JavaScript truthiness of a nullable string
TruthyStr(v) == v # Null /\ v[1] # <<>>

\* the questionData entries of the history, attempt after attempt, skipping
\* attempts without submission_data
RECURSIVE FlattenEntries(_)
FlattenEntries(subs) ==
    IF subs = <<>> THEN <<>>
    ELSE (IF Head(subs).submission_data = Null THEN <<>>
          ELSE Head(subs).submission_data[1]) \o FlattenEntries(Tail(subs))

\* the distinct question ids of the history, in order of first occurrence
RECURSIVE CollectIds(_, _)
CollectIds(entries, ids) ==
    IF entries = <<>> THEN ids
    ELSE CollectIds(Tail(entries),
            IF \E i \in 1..Len(ids) : ids[i] = Head(entries).question_id
            THEN ids ELSE Append(ids, Head(entries).question_id))

canvasQuestionIds(subs) == CollectIds(FlattenEntries(subs), <<>>)

\* qb_get_existing_questions_by_canvas_ids: the question rows of the course
\* that a stored submission links to one of the ids, each returned with
\* that canvas_question_id, in table order
RECURSIVE qbGetExistingQuestions(_, _, _, _)
qbGetExistingQuestions(qs, subs, courseId, ids) ==
    IF qs = <<>> THEN <<>>
    ELSE LET q == Head(qs)
             linked == SelectSeq(ids, LAMBDA id :
                          \E i \in 1..Len(subs) :
                              /\ subs[i].question_hash = q.question_hash
                              /\ subs[i].canvas_question_id = id)
         IN  (IF q.course_id = courseId
              THEN [i \in 1..Len(linked) |->
                       [canvas_question_id   |-> linked[i],
                        question_hash        |-> q.question_hash,
                        text_quality_score   |-> q.text_quality_score,
                        first_seen_quiz_id   |-> q.first_seen_quiz_id]]
              ELSE <<>>)
             \o qbGetExistingQuestions(Tail(qs), subs, courseId, ids)

\* allExistingQuestions: the returned rows with a truthy canvas id
allExistingQuestions(existingQuestions) ==
    SelectSeq(existingQuestions, LAMBDA q : q.canvas_question_id # 0)

\* existingByCanvasId.get(id): of the rows with that canvas id, the first
\* one with the highest text quality score; Null when there is none
RECURSIVE BestExisting(_, _, _)
BestExisting(rows, id, existing) ==
    IF rows = <<>> THEN existing
    ELSE LET q == Head(rows)
         IN  BestExisting(Tail(rows), id,
                IF q.canvas_question_id = id /\
                   (existing = Null
                    \/ q.text_quality_score > existing[1].text_quality_score)
                THEN Some(q) ELSE existing)

existingByCanvasId(existingQuestions, id) ==
    BestExisting(allExistingQuestions(existingQuestions), id, Null)

\* domQuestionMap.get(id): the last DOM question with that id, or Null
RECURSIVE domQuestionMap(_, _)
domQuestionMap(domQuestions, id) ==
    IF domQuestions = <<>> THEN Null
    ELSE IF domQuestions[Len(domQuestions)].canvas_question_id = id
         THEN Some(domQuestions[Len(domQuestions)])
         ELSE domQuestionMap(SubSeq(domQuestions, 1, Len(domQuestions) - 1), id)

\* Map.prototype.has / get / set on a sequence of <<key, value>> pairs in
\* insertion order; set on a present key keeps its position
MapHas(m, k) == \E i \in 1..Len(m) : m[i][1] = k

MapSet(m, k, v) ==
    IF MapHas(m, k)
    THEN [i \in 1..Len(m) |-> IF m[i][1] = k THEN <<k, v>> ELSE m[i]]
    ELSE Append(m, <<k, v>>)

MapValues(m) == [i \in 1..Len(m) |-> m[i][2]]

StrCanvas == <<99, 97, 110, 118, 97, 115, 95>>    \* "canvas_"
StrUnknown == <<117, 110, 107, 110, 111, 119, 110>>    \* "unknown"

\* `canvas_${questionId}_${courseId}`
temporaryHash(questionId, courseId) ==
    StrCanvas \o DecimalString(questionId) \o <<95>> \o DecimalString(courseId)

\* the keys of a submission entry that start with "answer"
AnswerKeys == {"answer_id"}

\* sanitizeAnswerFields: the answer* fields that are neither undefined nor
\* null, or null when there is none
sanitizeAnswerFields(questionData) ==
    LET keys == {k \in (DOMAIN questionData) \cap AnswerKeys :
                    questionData[k] # Null}
    IN  IF keys = {} THEN Null
        ELSE Some([k \in keys |-> questionData[k][1]])

\* the confidence score batch processing computes inline
inlineConfidence(questionData) ==
    IF questionData.correct \in {"true", "partial"}
    THEN FracMin(One,
            Frac(IF TruthyNum(questionData.points)
                 THEN questionData.points[1] ELSE 0,
                 IF TruthyNum(questionData.points_possible)
                 THEN questionData.points_possible[1] ELSE 1))
    ELSE Zero

(***************************************************************************)
(* processCanvasSubmissionsWithQuestionData: the loop over the entries     *)
(***************************************************************************)

\* the text, type, options and text source chosen for one entry
candidateOf(questionData, domQuestions) ==
    LET questionId  == questionData.question_id
        domQuestion == domQuestionMap(domQuestions, questionId)
        domText     == IF domQuestion # Null /\ domQuestion[1].questionText # <<>>
                       THEN Some(domQuestion[1].questionText) ELSE Null
        domType     == IF domQuestion # Null /\ domQuestion[1].questionType # <<>>
                       THEN Some(domQuestion[1].questionType) ELSE Null
    IN  [questionText |->
            IF domText # Null THEN domText[1]
            ELSE IF TruthyStr(questionData.question_text)
                 THEN questionData.question_text[1]
                 ELSE StrQuestionSp \o DecimalString(questionId),
         questionType |->
            IF domType # Null THEN domType[1]
            ELSE IF TruthyStr(questionData.question_type)
                 THEN questionData.question_type[1]
                 ELSE StrUnknown,
         options |->
            IF domQuestion # Null THEN domQuestion[1].options ELSE Null,
         textSource |->
            IF domText # Null THEN "dom"
            ELSE IF TruthyStr(questionData.question_text)
                    /\ ~IsPlaceholderText(questionData.question_text[1])
                 THEN "canvas_api"
                 ELSE "placeholder"]

\* variant: textQuality >= existingQuality in place of >
mergeDecision_orEqual(cand, textQuality, existingQuestion, questionId, courseId) ==
    IF existingQuestion # Null
    THEN LET existingQuality == existingQuestion[1].text_quality_score
             oldHash == existingQuestion[1].question_hash
             newHash == IF cand.textSource = "placeholder" THEN oldHash
                        ELSE generateQuestionHash(cand.questionText,
                                 cand.questionType, cand.options)
         IN  IF textQuality >= existingQuality
             THEN IF newHash # oldHash
                  THEN [questionHash |-> newHash, shouldSaveQuestion |-> TRUE,
                        oldHashToMerge |-> Some(oldHash)]
                  ELSE [questionHash |-> oldHash, shouldSaveQuestion |-> TRUE,
                        oldHashToMerge |-> Null]
             ELSE [questionHash |-> oldHash, shouldSaveQuestion |-> FALSE,
                   oldHashToMerge |-> Null]
    ELSE [questionHash |->
             IF cand.textSource = "placeholder"
             THEN temporaryHash(questionId, courseId)
             ELSE generateQuestionHash(cand.questionText, cand.questionType,
                                       cand.options),
          shouldSaveQuestion |-> TRUE,
          oldHashToMerge |-> Null]

\* the merge decision for one entry: the hash to use, whether the question
\* is written, and the old hash to merge away (Null when none)
mergeDecision(cand, textQuality, existingQuestion, questionId, courseId) ==
    IF existingQuestion # Null
    THEN LET existingQuality == existingQuestion[1].text_quality_score
             oldHash == existingQuestion[1].question_hash
             newHash == IF cand.textSource = "placeholder" THEN oldHash
                        ELSE generateQuestionHash(cand.questionText,
                                 cand.questionType, cand.options)
         IN  IF textQuality > existingQuality
             THEN IF newHash # oldHash
                  THEN [questionHash |-> newHash, shouldSaveQuestion |-> TRUE,
                        oldHashToMerge |-> Some(oldHash)]
                  ELSE [questionHash |-> oldHash, shouldSaveQuestion |-> TRUE,
                        oldHashToMerge |-> Null]
             ELSE [questionHash |-> oldHash, shouldSaveQuestion |-> FALSE,
                   oldHashToMerge |-> Null]
    ELSE [questionHash |->
             IF cand.textSource = "placeholder"
             THEN temporaryHash(questionId, courseId)
             ELSE generateQuestionHash(cand.questionText, cand.questionType,
                                       cand.options),
          shouldSaveQuestion |-> TRUE,
          oldHashToMerge |-> Null]

\* the value stored in processedQuestions before the submission is prepared
mergeInfo(decision) ==
    IF decision.oldHashToMerge # Null
    THEN [isObject |-> TRUE, newHash |-> decision.questionHash,
          oldHash |-> decision.oldHashToMerge, needsMerge |-> TRUE]
    ELSE [isObject |-> TRUE, newHash |-> decision.questionHash,
          oldHash |-> Null, needsMerge |-> FALSE]

\* the value stored in processedQuestions at the end of the loop body
processedValue(decision) ==
    [isObject |-> FALSE, string |-> decision.questionHash]

\* q => q.needsMerge on a value of processedQuestions
needsMerge(v) == v.isObject /\ v.needsMerge

\* variant: the quiz of the current run is written
firstSeenQuizId_current(existingQuestion, quizId) == quizId

\* existingQuestion ? existingQuestion.first_seen_quiz_id : quizId
firstSeenQuizId(existingQuestion, quizId) ==
    IF existingQuestion # Null THEN existingQuestion[1].first_seen_quiz_id
    ELSE quizId

\* one iteration of the loop body; acc holds the arrays being collected
processEntry(acc, questionData, courseId, quizId, domQuestions, existingQuestions) ==
    LET questionId == questionData.question_id
    IN  IF MapHas(acc.processedQuestions, questionId) THEN acc
        ELSE
        With(candidateOf(questionData, domQuestions), LAMBDA cand :
        With(calculateTextQuality(cand.questionText, cand.textSource),
             LAMBDA textQuality :
        With(existingByCanvasId(existingQuestions, questionId),
             LAMBDA existingQuestion :
        With(mergeDecision(cand, textQuality, existingQuestion, questionId,
                           courseId), LAMBDA decision :
        LET questionRow ==
                [question_hash      |-> decision.questionHash,
                 question_text      |-> cand.questionText,
                 question_type      |-> cand.questionType,
                 course_id          |-> courseId,
                 first_seen_quiz_id |-> firstSeenQuizId(existingQuestion, quizId),
                 text_quality_score |-> textQuality,
                 text_source        |-> cand.textSource,
                 metadata           |-> cand.options]
            submissionRow ==
                [question_hash      |-> decision.questionHash,
                 quiz_id            |-> quizId,
                 canvas_question_id |-> questionId,
                 user_answer        |-> IF questionData.text # Null
                                           /\ questionData.text[1] # ""
                                        THEN questionData.text ELSE Null,
                 is_correct         |-> IF questionData.correct = "true" THEN Some(TRUE)
                                        ELSE IF questionData.correct = "false"
                                             THEN Some(FALSE) ELSE Null,
                 points_earned      |-> IF IsNumber(questionData.points)
                                        THEN questionData.points ELSE Some(0),
                 points_possible    |-> IF IsNumber(questionData.points_possible)
                                        THEN questionData.points_possible ELSE Some(1),
                 answer_fields      |-> sanitizeAnswerFields(questionData)]
            bestAnswer ==
                [question_hash        |-> decision.questionHash,
                 answer_text          |-> questionData.text,
                 answer_fields        |-> Some(questionData),
                 confidence_score     |-> inlineConfidence(questionData),
                 source_submission_id |-> Null]
        IN  [questionsToSave |->
                IF decision.shouldSaveQuestion
                THEN Append(acc.questionsToSave, questionRow)
                ELSE acc.questionsToSave,
             submissionsToSave   |-> Append(acc.submissionsToSave, submissionRow),
             bestAnswersToUpdate |-> Append(acc.bestAnswersToUpdate, bestAnswer),
             processedQuestions  |->
                MapSet(MapSet(acc.processedQuestions, questionId, mergeInfo(decision)),
                       questionId, processedValue(decision)),
             decisions |-> Append(acc.decisions,
                [questionId |-> questionId, candidate |-> cand,
                 textQuality |-> textQuality,
                 existingQuestion |-> existingQuestion,
                 questionHash |-> decision.questionHash,
                 shouldSaveQuestion |-> decision.shouldSaveQuestion,
                 oldHashToMerge |-> decision.oldHashToMerge])]))))

RECURSIVE processEntries(_, _, _, _, _, _)
processEntries(acc, entries, courseId, quizId, domQuestions, existingQuestions) ==
    IF entries = <<>> THEN acc
    ELSE With(processEntry(acc, Head(entries), courseId, quizId, domQuestions,
                           existingQuestions),
              LAMBDA next :
                  processEntries(next, Tail(entries), courseId, quizId,
                                 domQuestions, existingQuestions))

\* variant: a candidate of equal confidence replaces the one kept
RECURSIVE deduplicateBestAnswers_orEqual(_, _)
deduplicateBestAnswers_orEqual(bestAnswersToUpdate, byHash) ==
    IF bestAnswersToUpdate = <<>> THEN MapValues(byHash)
    ELSE LET bestAnswer == Head(bestAnswersToUpdate)
             h == bestAnswer.question_hash
             existing == SelectSeq(byHash, LAMBDA e : e[1] = h)
         IN  deduplicateBestAnswers_orEqual(Tail(bestAnswersToUpdate),
                IF existing = <<>>
                   \/ ~FracLess(bestAnswer.confidence_score,
                               existing[1][2].confidence_score)
                THEN MapSet(byHash, h, bestAnswer)
                ELSE byHash)

\* bestAnswersByHash: one candidate per hash, replaced only by a candidate
\* of strictly higher confidence; values() lists them by first insertion
RECURSIVE deduplicateBestAnswers(_, _)
deduplicateBestAnswers(bestAnswersToUpdate, byHash) ==
    IF bestAnswersToUpdate = <<>> THEN MapValues(byHash)
    ELSE LET bestAnswer == Head(bestAnswersToUpdate)
             h == bestAnswer.question_hash
             existing == SelectSeq(byHash, LAMBDA e : e[1] = h)
         IN  deduplicateBestAnswers(Tail(bestAnswersToUpdate),
                IF existing = <<>>
                   \/ FracLess(existing[1][2].confidence_score,
                               bestAnswer.confidence_score)
                THEN MapSet(byHash, h, bestAnswer)
                ELSE byHash)

(***************************************************************************)
(* processCanvasSubmissionsWithQuestionData: the batch execution           *)
(***************************************************************************)

\* qb_batch_save_questions: upsert of each row by question hash
RECURSIVE qbBatchSaveQuestions(_, _)
qbBatchSaveQuestions(qs, rows) ==
    IF rows = <<>> THEN qs
    ELSE LET r == Head(rows)
         IN  qbBatchSaveQuestions(
                IF \E i \in 1..Len(qs) : qs[i].question_hash = r.question_hash
                THEN [i \in 1..Len(qs) |->
                        IF qs[i].question_hash = r.question_hash THEN r ELSE qs[i]]
                ELSE Append(qs, r),
                Tail(rows))

\* qb_batch_save_submissions: append the rows; stored rows get the next ids
qbBatchSaveSubmissions(subs, rows) == subs \o rows

\* the rows qb_batch_save_submissions returns: id and question_hash
savedSubmissionsOf(subs, rows) ==
    [i \in 1..Len(rows) |->
        [id |-> Len(subs) + i, question_hash |-> rows[i].question_hash]]

\* submissionIdMap.get(hash): the id of the first saved row with that hash
submissionIdMap(savedSubmissions, h) ==
    LET hits == SelectSeq(savedSubmissions, LAMBDA r : r.question_hash = h)
    IN  IF hits = <<>> THEN Null ELSE Some(hits[1].id)

\* the deduplicated best answers with their source_submission_id filled in
withSubmissionIds(deduplicated, savedSubmissions) ==
    [i \in 1..Len(deduplicated) |->
        LET submissionId == submissionIdMap(savedSubmissions,
                                            deduplicated[i].question_hash)
        IN  IF Len(savedSubmissions) > 0 /\ submissionId # Null
               /\ submissionId[1] # 0
            THEN [deduplicated[i] EXCEPT !.source_submission_id = submissionId]
            ELSE deduplicated[i]]

\* qb_batch_update_best_answers: upsert of each best answer row by hash
RECURSIVE qbBatchUpdateBestAnswers(_, _)
qbBatchUpdateBestAnswers(best, rows) ==
    IF rows = <<>> THEN best
    ELSE qbBatchUpdateBestAnswers(
            qbUpdateBestAnswer(best, Head(rows).question_hash,
                [answer_text          |-> Head(rows).answer_text,
                 answer_fields        |-> Head(rows).answer_fields,
                 confidence_score     |-> Head(rows).confidence_score,
                 source_submission_id |-> Head(rows).source_submission_id]),
            Tail(rows))

\* mergesToProcess: the values of processedQuestions that need a merge
mergesToProcess(processedQuestions) ==
    LET vs == SelectSeq(MapValues(processedQuestions), needsMerge)
    IN  [i \in 1..Len(vs) |->
            [oldHash |-> vs[i].oldHash[1], newHash |-> vs[i].newHash,
             phase |-> "merge", canvasId |-> 0]]

\* questions.sort((a, b) => b.text_quality_score - a.text_quality_score):
\* stable, highest quality first
RECURSIVE InsertByQuality(_, _)
InsertByQuality(q, s) ==
    IF s = <<>> THEN <<q>>
    ELSE IF q.text_quality_score > Head(s).text_quality_score THEN <<q>> \o s
    ELSE <<Head(s)>> \o InsertByQuality(q, Tail(s))

RECURSIVE SortByQuality(_)
SortByQuality(s) ==
    IF s = <<>> THEN <<>>
    ELSE InsertByQuality(s[Len(s)], SortByQuality(SubSeq(s, 1, Len(s) - 1)))

\* duplicateGroups[canvasId]: the existing rows with that canvas id
duplicateGroup(allExisting, canvasId) ==
    SelectSeq(allExisting, LAMBDA q : q.canvas_question_id = canvasId)

\* the merges of the duplicate cleanup of one group
cleanupMergesOf(allExisting, canvasId) ==
    LET group == duplicateGroup(allExisting, canvasId)
        sorted == SortByQuality(group)
    IN  IF Len(group) > 1
        THEN [i \in 1..(Len(sorted) - 1) |->
                [oldHash |-> sorted[i + 1].question_hash,
                 newHash |-> sorted[1].question_hash,
                 phase |-> "cleanup", canvasId |-> canvasId]]
        ELSE <<>>

\* Object.entries(duplicateGroups): integer keys in ascending order
RECURSIVE cleanupMerges(_, _)
cleanupMerges(allExisting, canvasIds) ==
    IF canvasIds = {} THEN <<>>
    ELSE LET id == CHOOSE x \in canvasIds : \A y \in canvasIds : x <= y
         IN  cleanupMergesOf(allExisting, id)
             \o cleanupMerges(allExisting, canvasIds \ {id})

\* the store after the merge calls; call number failAt is reported as
\* failed by the collaborator and changes nothing
RECURSIVE runMerges(_, _, _, _)
runMerges(store, merges, n, failAt) ==
    IF merges = <<>> THEN store
    ELSE LET m == Head(merges)
             ok == n # failAt
         IN  With(IF ok
                  THEN [questions   |-> qbMergeQuestions(store.questions, m.oldHash),
                        submissions |-> qbMergeSubmissions(store.submissions,
                                           m.oldHash, m.newHash),
                        bestAnswers |-> qbMergeBestAnswers(store.bestAnswers,
                                           m.oldHash, m.newHash)]
                  ELSE store,
                  LAMBDA next : runMerges(next, Tail(merges), n + 1, failAt))

mergeCalls_raising(merges, failAt) ==
    [i \in 1..(IF failAt > 0 THEN failAt ELSE Len(merges)) |->
        [name |-> "qb_merge_question_records",
         old_hash |-> merges[i].oldHash, new_hash |-> merges[i].newHash,
         success |-> (i # failAt),
         phase |-> merges[i].phase, canvasId |-> merges[i].canvasId]]

\* the merge calls of a run, one per merge: mergeQuestionRecords returns on
\* a reported failure, and the loops go on to the next merge
mergeCalls(merges, failAt) ==
    [i \in 1..Len(merges) |->
        [name |-> "qb_merge_question_records",
         old_hash |-> merges[i].oldHash, new_hash |-> merges[i].newHash,
         success |-> (i # failAt),
         phase |-> merges[i].phase, canvasId |-> merges[i].canvasId]]

\* everything the method computes before its batch execution
prepareBatch(store, courseId, quizId, subs, domQuestions) ==
    With(qbGetExistingQuestions(store.questions, store.submissions, courseId,
                                canvasQuestionIds(subs)),
         LAMBDA existingQuestions :
    With(allExistingQuestions(existingQuestions), LAMBDA allExisting :
    With(FlattenEntries(subs), LAMBDA entries :
    With(processEntries(
            [questionsToSave |-> <<>>, submissionsToSave |-> <<>>,
             bestAnswersToUpdate |-> <<>>, processedQuestions |-> <<>>,
             decisions |-> <<>>],
            entries, courseId, quizId, domQuestions, existingQuestions),
         LAMBDA acc :
        [existingQuestions   |-> existingQuestions,
         questionsToSave     |-> acc.questionsToSave,
         submissionsToSave   |-> acc.submissionsToSave,
         bestAnswersToUpdate |-> acc.bestAnswersToUpdate,
         deduplicatedBestAnswers |->
             deduplicateBestAnswers(acc.bestAnswersToUpdate, <<>>),
         processedQuestions  |-> acc.processedQuestions,
         decisions           |-> acc.decisions,
         merges |-> mergesToProcess(acc.processedQuestions)
                    \o cleanupMerges(allExisting,
                          {allExisting[i].canvas_question_id :
                              i \in 1..Len(allExisting)})]))))

\* the batch execution: the three batch writes, then the merges
executeBatch(store, prep, failAt) ==
    With(savedSubmissionsOf(store.submissions, prep.submissionsToSave),
         LAMBDA savedSubmissions :
    With(withSubmissionIds(prep.deduplicatedBestAnswers, savedSubmissions),
         LAMBDA bestRows :
    With([questions   |-> qbBatchSaveQuestions(store.questions,
                                               prep.questionsToSave),
          submissions |-> qbBatchSaveSubmissions(store.submissions,
                                                 prep.submissionsToSave),
          bestAnswers |-> qbBatchUpdateBestAnswers(store.bestAnswers, bestRows)],
         LAMBDA written :
        [store |-> runMerges(written, prep.merges, 1, failAt),
         rpc |->
            << [name |-> "qb_save_course"], [name |-> "qb_save_quiz"],
               [name |-> "qb_get_existing_questions_by_canvas_ids"] >>
            \o (IF prep.questionsToSave = <<>> THEN <<>>
                ELSE << [name |-> "qb_batch_save_questions",
                         rows |-> prep.questionsToSave] >>)
            \o (IF prep.submissionsToSave = <<>> THEN <<>>
                ELSE << [name |-> "qb_batch_save_submissions",
                         rows |-> prep.submissionsToSave] >>)
            \o (IF bestRows = <<>> THEN <<>>
                ELSE << [name |-> "qb_batch_update_best_answers",
                         rows |-> bestRows] >>)
            \o mergeCalls(prep.merges, failAt)])))

(***************************************************************************)
(* Inputs                                                                  *)
(***************************************************************************)

MaxAttempts == 2    \* quiz attempts in the submission history
MaxOps == 2         \* store operations in one behaviour
MaxSaves == 2       \* saveSubmission calls in one behaviour
MaxCandidates == 3  \* best-answer candidates in one deduplication

CourseIds == {1}
QuizIds == {10, 11}
QuestionIds == {5, 7}

TypeShortAnswer == <<115, 104, 111, 114, 116, 95, 97, 110, 115, 119, 101, 114,
                     95, 113, 117, 101, 115, 116, 105, 111, 110>>
                                                \* "short_answer_question"
TypeMultipleChoice == <<109, 117, 108, 116, 105, 112, 108, 101, 95, 99, 104,
                        111, 105, 99, 101, 95, 113, 117, 101, 115, 116, 105,
                        111, 110>>              \* "multiple_choice_question"
TextSum == <<87, 104, 97, 116, 32, 105, 115, 32, 50, 43, 50, 63>>
                                                \* "What is 2+2?"
TextSumApi == <<119, 104, 97, 116, 32, 32, 105, 115, 32, 50, 43, 50, 63>>
                                                \* "what  is 2+2?"
TextSum3 == <<87, 104, 97, 116, 32, 105, 115, 32, 51, 43, 51, 63>>
                                                \* "What is 3+3?"
TextCapital == <<78, 97, 109, 101, 32, 116, 104, 101, 32, 99, 97, 112, 105,
                 116, 97, 108, 32, 111, 102, 32, 70, 114, 97, 110, 99, 101, 63>>
                                                \* "Name the capital of France?"
TextQuestion7 == <<81, 117, 101, 115, 116, 105, 111, 110, 32, 55>>
                                                \* "Question 7"
OptParis == <<80, 97, 114, 105, 115>>           \* "Paris"
OptRome == <<82, 111, 109, 101>>                \* "Rome"

\* what one attempt records for one question: correct, points,
\* points_possible and the answer text
OutcomeFull ==
    [correct |-> "true", points |-> Some(2), points_possible |-> Some(2),
     text |-> Some("A"), answer_id |-> Some(101)]
OutcomeWrong ==
    [correct |-> "false", points |-> Some(0), points_possible |-> Some(2),
     text |-> Some("B"), answer_id |-> Some(102)]
OutcomePartial ==
    [correct |-> "partial", points |-> Some(1), points_possible |-> Some(2),
     text |-> Some("C"), answer_id |-> Some(103)]
\* an entry without the points keys
OutcomeNoPoints ==
    [correct |-> "true", points |-> Null, points_possible |-> Null,
     text |-> Some("D"), answer_id |-> Null]

Outcomes5 == {OutcomeFull, OutcomeWrong, OutcomePartial, OutcomeNoPoints}
Outcomes7 == {OutcomeFull, OutcomeWrong}

entryOf(questionId, outcome) ==
    [question_id |-> questionId, correct |-> outcome.correct,
     points |-> outcome.points, points_possible |-> outcome.points_possible,
     text |-> outcome.text, answer_id |-> outcome.answer_id,
     question_text |-> Null, question_type |-> Null]

attemptOf(o5, o7) ==
    [submission_data |-> Some(<<entryOf(5, o5), entryOf(7, o7)>>)]

\* the attempts Canvas can report: both questions answered, or an attempt
\* without submission_data
AttemptChoices ==
    {attemptOf(o5, o7) : o5 \in Outcomes5, o7 \in Outcomes7}
    \cup {[submission_data |-> Null]}

\* the question text and type Canvas reports for a question, when it does
apiTextOf(questionId) == IF questionId = 5 THEN TextSumApi ELSE TextQuestion7

\* the submissions argument: the history, with or without question texts
withApiText(entries, apiText) ==
    [i \in 1..Len(entries) |->
        IF apiText
        THEN [entries[i] EXCEPT
                 !.question_text = Some(apiTextOf(entries[i].question_id)),
                 !.question_type = Some(TypeShortAnswer)]
        ELSE entries[i]]

canvasSubmissions(hist, apiText) ==
    [i \in 1..Len(hist) |->
        IF hist[i].submission_data = Null THEN hist[i]
        ELSE [submission_data |->
                 Some(withApiText(hist[i].submission_data[1], apiText))]]

domQuestion(questionId, text, type, options) ==
    [canvas_question_id |-> questionId, questionText |-> text,
     questionType |-> type, options |-> options]

\* the element question_<id>_question_text of a question with its text
\* content, the question type and answer labels shown next to it, and
\* whether a source badge was appended to it
pageElements(domQuestions) ==
    [i \in 1..Len(domQuestions) |->
        [questionId  |-> domQuestions[i].canvas_question_id,
         textContent |-> domQuestions[i].questionText,
         questionType |-> domQuestions[i].questionType,
         options     |-> domQuestions[i].options,
         badge       |-> FALSE]]

\* the page of a behaviour in which no page takes part
NoPage == [courseId |-> 1, quizId |-> 10, apiText |-> FALSE, elements |-> <<>>]

\* extractQuestionFromDOM: the trimmed text content of the element, badge
\* included once one was appended
extractQuestionFromDOM(element) ==
    domQuestion(element.questionId, Trim(element.textContent),
                element.questionType, element.options)

\* getCurrentQuizQuestions: the questions of the document as it is now
getCurrentQuizQuestions(elements) ==
    [i \in 1..Len(elements) |-> extractQuestionFromDOM(elements[i])]

\* the text of a source badge: its icon and its label
BadgeKnowledgeBank ==
    <<55356, 57318, 75, 110, 111, 119, 108, 101, 100, 103, 101, 32, 66, 97,
      110, 107>>
                                        \* U+1F3E6 "Knowledge Bank"
BadgeCanvas ==
    <<55356, 57263, 89, 111, 117, 114, 32, 72, 105, 115, 116, 111, 114,
      121>>
                                        \* U+1F3AF "Your History"
BadgeNew ==
    <<10024, 78, 101, 119, 32, 81, 117, 101, 115, 116, 105, 111, 110>>
                                        \* U+2728 "New Question"
BadgeUnknown ==
    <<10067, 85, 110, 107, 110, 111, 119, 110>>
                                        \* U+2753 "Unknown"

\* addSourceBadge: an element without a badge gets the badge of the source
\* appended, which adds the text of the badge to its text content
addSourceBadge(element, source) ==
    IF element.badge THEN element
    ELSE [element EXCEPT
             !.badge = TRUE,
             !.textContent =
                 @ \o (CASE source = "knowledge_bank" -> BadgeKnowledgeBank
                         [] source = "canvas"         -> BadgeCanvas
                         [] source = "new"            -> BadgeNew
                         [] OTHER                     -> BadgeUnknown)]

DomNone == <<>>
DomSame == <<domQuestion(5, TextSum, TypeShortAnswer, Null),
             domQuestion(7, TextSum, TypeShortAnswer, Null)>>
DomDistinct == <<domQuestion(5, TextSum, TypeShortAnswer, Null),
                 domQuestion(7, TextCapital, TypeMultipleChoice,
                             Some(<<OptParis, OptRome>>))>>
DomTie == <<domQuestion(5, TextSum, TypeShortAnswer, Null),
            domQuestion(7, TextSum3, TypeShortAnswer, Null)>>

\* the DOM questions getCurrentQuizQuestions can supply
DomChoices == {DomNone, DomSame, DomDistinct}

\* the submissions saveSubmission is called with: isCorrect, pointsEarned,
\* pointsPossible
SubmissionOutcomes ==
    { <<Some(TRUE), Some(2), Some(2)>>,  <<Some(FALSE), Some(0), Some(2)>>,
      <<Null, Some(1), Some(2)>>,        <<Some(TRUE), Some(1), Some(2)>>,
      <<Some(TRUE), Some(0), Some(2)>>,  <<Some(TRUE), Null, Null>>,
      <<Some(FALSE), Null, Null>>,       <<Some(TRUE), Some(3), Some(2)>>,
      <<Some(TRUE), Some(1), Some(0)>>,  <<Some(FALSE), Some(0 - 1), Some(2)>> }

HashSum == generateQuestionHash(TextSum, TypeShortAnswer, Null)
HashSum3 == generateQuestionHash(TextSum3, TypeShortAnswer, Null)

\* the questions saveSubmission is called for: <<hash, canvas question id>>
SaveTargets == { <<HashSum, 5>>, <<HashSum3, 7>> }

(***************************************************************************)
(* Operations as functions of the store                                    *)
(***************************************************************************)

EmptyStore == [questions |-> <<>>, submissions |-> <<>>, bestAnswers |-> <<>>]

CurrentStore ==
    [questions |-> questions, submissions |-> submissions,
     bestAnswers |-> bestAnswers]

\* saveSubmission: qb_save_submission, then updateBestAnswer with the
\* returned id
saveSubmission(store, questionHash, quizId, canvasQuestionId, userAnswer, isCorrect, pointsEarned, pointsPossible, answerFields) ==
    LET row == [question_hash      |-> questionHash,
                quiz_id            |-> quizId,
                canvas_question_id |-> canvasQuestionId,
                user_answer        |-> userAnswer,
                is_correct         |-> isCorrect,
                points_earned      |-> pointsEarned,
                points_possible    |-> pointsPossible,
                answer_fields      |-> answerFields]
        saved == qbSaveSubmission(store.submissions, row)
        id == Len(saved)
        submission == [user_answer |-> userAnswer, is_correct |-> isCorrect,
                       points_earned |-> pointsEarned,
                       points_possible |-> pointsPossible,
                       answer_fields |-> answerFields]
        calls == IF id # 0
                 THEN updateBestAnswerCalls(store.bestAnswers, questionHash,
                                            submission, id)
                 ELSE <<>>
    IN  [store |-> [questions   |-> store.questions,
                    submissions |-> saved,
                    bestAnswers |-> ApplyBestAnswerCalls(store.bestAnswers, calls)],
         rpc |-> << [name |-> "qb_save_submission", row |-> row],
                    [name |-> "qb_get_best_answer",
                     question_hash |-> questionHash] >> \o calls,
         confidence |-> confidenceScore(submission)]

\* variant: p_old_hash and p_new_hash exchanged
mergeQuestionRecords_swapped(store, oldHash, newHash, response) ==
    LET merges == << [oldHash |-> newHash, newHash |-> oldHash,
                      phase |-> "direct", canvasId |-> 0] >>
        failAt == IF response = "success" THEN 0 ELSE 1
    IN  [store |-> runMerges(store, merges, 1, failAt),
         rpc |-> mergeCalls(merges, failAt),
         raised |-> response = "error"]

\* variant: a result without the success flag is thrown like an error
mergeQuestionRecords_throwing(store, oldHash, newHash, response) ==
    LET merges == << [oldHash |-> oldHash, newHash |-> newHash,
                      phase |-> "direct", canvasId |-> 0] >>
        failAt == IF response = "success" THEN 0 ELSE 1
    IN  [store |-> runMerges(store, merges, 1, failAt),
         rpc |-> mergeCalls(merges, failAt),
         raised |-> response # "success"]

\* mergeQuestionRecords: one qb_merge_question_records call.  The response
\* is data with the success flag, data without it (a warning is logged and
\* the data returned), or an error of the call, which safeRpcCall throws
\* and the catch block logs and throws again
mergeQuestionRecords(store, oldHash, newHash, response) ==
    LET merges == << [oldHash |-> oldHash, newHash |-> newHash,
                      phase |-> "direct", canvasId |-> 0] >>
        failAt == IF response = "success" THEN 0 ELSE 1
    IN  [store |-> runMerges(store, merges, 1, failAt),
         rpc |-> mergeCalls(merges, failAt),
         raised |-> response = "error"]

\* the store after a batch run in which no merge fails
storeAfterBatch(store, hist, apiText, domQuestions) ==
    With(store, LAMBDA before :
    With(prepareBatch(before, 1, 10, canvasSubmissions(hist, apiText),
                      domQuestions),
         LAMBDA prep : executeBatch(before, prep, 0).store))

(***************************************************************************)
(* Initial states: an empty store, and stores left by earlier sessions     *)
(***************************************************************************)

SeedHistory == <<attemptOf(OutcomeFull, OutcomeWrong)>>

\* two earlier runs: first without any question text, then with the DOM
SeedDuplicates ==
    With(storeAfterBatch(EmptyStore, SeedHistory, FALSE, DomNone),
         LAMBDA store : storeAfterBatch(store, SeedHistory, FALSE, DomDistinct))

\* an earlier run with the DOM, then a submission saved for question 5
\* under the hash of question 7
SeedTie ==
    With(storeAfterBatch(EmptyStore, SeedHistory, FALSE, DomTie),
         LAMBDA store :
            saveSubmission(store, HashSum3, 10, 5, Some("A"), Some(TRUE),
                           Some(2), Some(2), Null).store)

Seeds ==
    { [store |-> EmptyStore, history |-> <<>>],
      [store |-> SeedDuplicates, history |-> SeedHistory],
      [store |-> SeedTie, history |-> SeedHistory] }

Init ==
    \E seed \in Seeds :
        /\ questions = seed.store.questions
        /\ submissions = seed.store.submissions
        /\ bestAnswers = seed.store.bestAnswers
        /\ history = seed.history
        /\ rpc = <<>>
        /\ op = [name |-> "init"]
        /\ ops = 0
        /\ page = NoPage
        /\ pending = <<>>

InitSave ==
    /\ questions = <<>>
    /\ submissions = <<>>
    /\ bestAnswers = <<>>
    /\ history = <<>>
    /\ rpc = <<>>
    /\ op = [name |-> "init"]
    /\ ops = 0
    /\ page = NoPage
    /\ pending = <<>>

(***************************************************************************)
(* getCorrectAnswers (src/quiz-bank/compileQuestions.js)                   *)
(***************************************************************************)

\* questionSubmission: correct, text, points and the answer fields
questionSubmissionOf(raw) ==
    [correct |-> IF raw.correct \in {"true", "false", "partial"}
                 THEN Some(raw.correct) ELSE Null,
     text |-> raw.text, points |-> raw.points,
     dynamicFields |-> [key \in AnswerKeys |-> raw[key]]]

\* ToNumber of a point value: null is 0, undefined is NaN (Null here)
PointsNumber(v) == IF v = JsNull THEN Some(0) ELSE v

\* a < b on two point values: false when either is undefined, and null
\* counts as 0
PointsLess(a, b) ==
    /\ PointsNumber(a) # Null
    /\ PointsNumber(b) # Null
    /\ PointsNumber(a)[1] < PointsNumber(b)[1]

\* the loop body for one entry; qs maps a question id to Null or to
\* Some([attempts, bestAnswer, latestAnswer])
answerStep(qs, raw) ==
    LET questionSubmission == questionSubmissionOf(raw)
        question == IF qs[raw.question_id] = Null
                    THEN [attempts |-> <<>>, bestAnswer |-> questionSubmission,
                          latestAnswer |-> questionSubmission]
                    ELSE qs[raw.question_id][1]
        pushed == [question EXCEPT !.attempts = Append(@, questionSubmission)]
    IN  [qs EXCEPT ![raw.question_id] =
            Some(IF raw.correct = "true"
                    \/ PointsLess(pushed.bestAnswer.points, raw.points)
                 THEN [pushed EXCEPT !.bestAnswer = questionSubmission]
                 ELSE pushed)]

RECURSIVE answerLoop(_, _)
answerLoop(qs, entries) ==
    IF entries = <<>> THEN qs
    ELSE With(answerStep(qs, Head(entries)),
              LAMBDA next : answerLoop(next, Tail(entries)))

\* getCorrectAnswers: null when the history is empty or its first attempt
\* has no submission_data; an attempt without submission_data further on
\* cannot be iterated and the call raises
getCorrectAnswers(subs) ==
    IF subs = <<>> \/ subs[1].submission_data = Null
    THEN [raised |-> FALSE, questions |-> Null]
    ELSE IF \E i \in 1..Len(subs) : subs[i].submission_data = Null
    THEN [raised |-> TRUE, questions |-> Null]
    ELSE [raised |-> FALSE,
          questions |-> Some(answerLoop([q \in QuestionIds |-> Null],
                                        FlattenEntries(subs)))]

(***************************************************************************)
(* getEnhancedCorrectAnswers: the answer chosen for a question of the page *)
(* (src/quiz-bank/compileQuestions.js)                                     *)
(***************************************************************************)

\* qb_find_question: the question row of the hash, or Null
qbFindQuestion(qs, questionHash) ==
    With(SelectSeq(qs, LAMBDA q : q.question_hash = questionHash),
         LAMBDA rows : IF rows = <<>> THEN Null ELSE Some(rows[1]))

\* qb_find_by_canvas_id: a question row that a stored submission links to
\* the native id, whichever of them the procedure picks, or Null
qbFindByCanvasId(store, courseId, canvasQuestionId) ==
    With(qbGetExistingQuestions(store.questions, store.submissions, courseId,
                                <<canvasQuestionId>>),
         LAMBDA rows : IF rows = <<>> THEN {Null}
                       ELSE {Some(rows[i]) : i \in 1..Len(rows)})

\* correctToScore
correctToScore(correct) ==
    CASE correct = Some("true")    -> One
      [] correct = Some("partial") -> Frac(1, 2)
      [] OTHER                     -> Zero

\* the source of the answer kept for a question: bestAnswer is the best
\* answer of the knowledge bank or Null, canvasAnswer the entry of
\* getCorrectAnswers for the question or Null.  With both, a correct answer
\* wins over one that is not, and otherwise the higher confidence, the
\* knowledge bank first on a tie
answerSource(bestAnswer, canvasAnswer) ==
    IF bestAnswer # Null /\ canvasAnswer # Null
    THEN LET enhanced == bestAnswer[1].confidence_score
             canvas == correctToScore(canvasAnswer[1].bestAnswer.correct)
             enhancedIsCorrect == ~FracLess(enhanced, One)
             canvasIsCorrect == ~FracLess(canvas, One)
         IN  IF enhancedIsCorrect /\ ~canvasIsCorrect THEN "knowledge_bank"
             ELSE IF canvasIsCorrect /\ ~enhancedIsCorrect THEN "canvas"
             ELSE IF ~FracLess(enhanced, canvas) THEN "knowledge_bank"
             ELSE "canvas"
    ELSE IF bestAnswer # Null THEN "knowledge_bank"
    ELSE IF canvasAnswer # Null THEN "canvas"
    ELSE "new"

\* the awaits of the loop of getEnhancedCorrectAnswers for one question of
\* the page: findQuestionByContent, the fallback findQuestionByCanvasId,
\* and in getQuestionAnalysis the best answer and then the other two
\* procedures it waits for with it
LookupPhases == {"findByContent", "findByCanvasId", "bestAnswer", "analysis"}

\* the question of the page the loop is at: the one after those whose
\* source is settled
questionInfoOf(run) == run.domQuestions[Len(run.sources) + 1]

\* the answers the store can give to the lookup a run is suspended at, as
\* the store is when it answers
lookupAnswers(store, run) ==
    CASE run.pc = "findByContent" ->
            {qbFindQuestion(store.questions,
                generateQuestionHash(questionInfoOf(run).questionText,
                                     questionInfoOf(run).questionType,
                                     questionInfoOf(run).options))}
      [] run.pc = "findByCanvasId" ->
            qbFindByCanvasId(store, run.courseId,
                             questionInfoOf(run).canvas_question_id)
      [] run.pc = "bestAnswer" ->
            {qbGetBestAnswer(store.bestAnswers,
                             run.dbQuestion[1].question_hash)}
      [] OTHER -> {Null}

\* the call a run sends for the lookup it is suspended at
lookupCall(run) ==
    CASE run.pc = "findByContent" ->
            << [name |-> "qb_find_question",
                question_hash |->
                    generateQuestionHash(questionInfoOf(run).questionText,
                                         questionInfoOf(run).questionType,
                                         questionInfoOf(run).options)] >>
      [] run.pc = "findByCanvasId" ->
            << [name |-> "qb_find_by_canvas_id",
                canvas_question_id |->
                    questionInfoOf(run).canvas_question_id] >>
      [] run.pc = "bestAnswer" ->
            << [name |-> "qb_get_best_answer",
                question_hash |-> run.dbQuestion[1].question_hash] >>
      [] OTHER ->
            << [name |-> "qb_get_wrong_answers",
                question_hash |-> run.dbQuestion[1].question_hash],
               [name |-> "qb_get_question_stats",
                question_hash |-> run.dbQuestion[1].question_hash] >>

\* the loop with the source of the question it is at settled: the choice
\* between the best answer of the knowledge bank and the entry of
\* getCorrectAnswers, and on to the next question
settled(run, bestAnswer) ==
    With(getCorrectAnswers(run.submissions).questions, LAMBDA canvasAnswers :
        [run EXCEPT
            !.sources = Append(@,
                answerSource(bestAnswer,
                    IF canvasAnswers = Null THEN Null
                    ELSE canvasAnswers[1][questionInfoOf(run).canvas_question_id])),
            !.dbQuestion = Null, !.bestAnswer = Null, !.lookup = "none"])

\* the loop body after the answer of the lookup the run is suspended at:
\* a record found goes on to getQuestionAnalysis, no record by content to
\* the fallback by the native id when the question has an id and its text
\* is no placeholder, and the question is settled after the analysis or
\* when no record was found.  lookup names the await the loop
\* makes next for the same question
lookupAnswered(run, answer) ==
    CASE run.pc = "findByContent" ->
            IF answer # Null
            THEN [run EXCEPT !.dbQuestion = answer, !.lookup = "bestAnswer"]
            ELSE IF /\ questionInfoOf(run).canvas_question_id # 0
                    /\ ~IsPlaceholderText(questionInfoOf(run).questionText)
            THEN [run EXCEPT !.lookup = "findByCanvasId"]
            ELSE settled(run, Null)
      [] run.pc = "findByCanvasId" ->
            IF answer # Null
            THEN [run EXCEPT !.dbQuestion = answer, !.lookup = "bestAnswer"]
            ELSE settled(run, Null)
      [] run.pc = "bestAnswer" ->
            [run EXCEPT !.bestAnswer = answer, !.lookup = "analysis"]
      [] run.pc = "analysis" -> settled(run, run.bestAnswer)
      [] OTHER -> run

\* displayEnhancedAnswers up to its first await: each question element of
\* the document whose id has an enhanced answer gets the badge of the
\* source of that answer
displayEnhancedAnswers(elements, domQuestions, sources) ==
    [e \in 1..Len(elements) |->
        LET entries == {i \in 1..Len(domQuestions) :
                           domQuestions[i].canvas_question_id
                               = elements[e].questionId}
        IN  IF entries = {} THEN elements[e]
            ELSE addSourceBadge(elements[e],
                    sources[CHOOSE i \in entries : \A j \in entries : j <= i])]

(***************************************************************************)
(* Actions                                                                 *)
(***************************************************************************)

\* the user takes the quiz once more: getQuizSubmissions returns one more
\* attempt; an attempt no later call can read is left out
TakeAttempt ==
    /\ Len(history) < MaxAttempts
    /\ ops < MaxOps
    /\ \E attempt \in AttemptChoices : history' = Append(history, attempt)
    /\ UNCHANGED <<questions, submissions, bestAnswers, rpc, op, ops, pending, page>>

\* the state of the last step when it left its call suspended at an await
Suspended(kind, at) == [name |-> "await", of |-> kind, at |-> at]

\* the pending calls without the i-th
WithoutCall(i) == SubSeq(pending, 1, i - 1) \o SubSeq(pending, i + 1, Len(pending))

\* the submission ids a caller passes to updateBestAnswer on its own
DirectSubmissionIds == {7}

\* saveSubmission up to the answer of qb_save_submission: the row is
\* stored, and the call is suspended in updateBestAnswer at getBestAnswer
SaveSubmission ==
    /\ ops < MaxSaves
    /\ \E target \in SaveTargets, quizId \in QuizIds,
          outcome \in SubmissionOutcomes :
        \E row \in {[question_hash      |-> target[1],
                      quiz_id            |-> quizId,
                      canvas_question_id |-> target[2],
                      user_answer        |-> Some("A"),
                      is_correct         |-> outcome[1],
                      points_earned      |-> outcome[2],
                      points_possible    |-> outcome[3],
                      answer_fields      |-> Null]} :
            /\ submissions' = qbSaveSubmission(submissions, row)
            /\ rpc' = << [name |-> "qb_save_submission", row |-> row] >>
            /\ pending' = Append(pending,
                  [kind |-> "saveSubmission", pc |-> "getBestAnswer",
                   questionHash |-> target[1],
                   submission |-> [user_answer |-> row.user_answer,
                                   is_correct |-> row.is_correct,
                                   points_earned |-> row.points_earned,
                                   points_possible |-> row.points_possible,
                                   answer_fields |-> row.answer_fields],
                   submissionId |-> Len(submissions) + 1,
                   currentBest |-> Null, calls |-> rpc'])
    /\ op' = Suspended("saveSubmission", "getBestAnswer")
    /\ ops' = ops + 1
    /\ UNCHANGED <<questions, bestAnswers, history, page>>

\* updateBestAnswer called on its own: suspended at getBestAnswer
UpdateBestAnswer ==
    /\ ops < MaxSaves
    /\ \E target \in SaveTargets, outcome \in SubmissionOutcomes,
          submissionId \in DirectSubmissionIds :
          pending' = Append(pending,
              [kind |-> "updateBestAnswer", pc |-> "getBestAnswer",
               questionHash |-> target[1],
               submission |-> [user_answer |-> Some("A"),
                               is_correct |-> outcome[1],
                               points_earned |-> outcome[2],
                               points_possible |-> outcome[3],
                               answer_fields |-> Null],
               submissionId |-> submissionId,
               currentBest |-> Null, calls |-> <<>>])
    /\ op' = Suspended("updateBestAnswer", "getBestAnswer")
    /\ rpc' = <<>>
    /\ ops' = ops + 1
    /\ UNCHANGED <<questions, submissions, bestAnswers, history, page>>

\* the last operation as a completed saveSubmission or updateBestAnswer
SaveReturned(call, currentBest) ==
    [name |-> call.kind, questionHash |-> call.questionHash,
     isCorrect |-> call.submission.is_correct,
     pointsEarned |-> call.submission.points_earned,
     pointsPossible |-> call.submission.points_possible,
     confidence |-> confidenceScore(call.submission),
     currentBest |-> currentBest, submissionId |-> call.submissionId,
     failed |-> "none", raised |-> FALSE]

\* qb_get_best_answer answers a suspended updateBestAnswer: with a better
\* confidence the call goes on to qb_update_best_answer, otherwise it
\* returns
GetBestAnswerAnswered ==
    \E i \in 1..Len(pending) :
        /\ pending[i].pc = "getBestAnswer"
        /\ \E currentBest \in {qbGetBestAnswer(bestAnswers,
                                                pending[i].questionHash)},
              call \in {[name |-> "qb_get_best_answer",
                         question_hash |-> pending[i].questionHash]} :
              IF updateCallsFor(currentBest, pending[i].questionHash,
                                pending[i].submission,
                                pending[i].submissionId) # <<>>
              THEN /\ pending' = [pending EXCEPT
                                     ![i].pc = "updateBestAnswer",
                                     ![i].currentBest = currentBest,
                                     ![i].calls = Append(@, call)]
                   /\ op' = Suspended(pending[i].kind, "updateBestAnswer")
                   /\ rpc' = <<call>>
              ELSE /\ pending' = WithoutCall(i)
                   /\ op' = SaveReturned(pending[i], currentBest)
                   /\ rpc' = Append(pending[i].calls, call)
        /\ UNCHANGED <<questions, submissions, bestAnswers, history, ops, page>>

\* qb_update_best_answer answers: the best answer is written, the call
\* returns
UpdateBestAnswerAnswered ==
    \E i \in 1..Len(pending) :
        /\ pending[i].pc = "updateBestAnswer"
        /\ \E calls \in {updateCallsFor(pending[i].currentBest,
                                         pending[i].questionHash,
                                         pending[i].submission,
                                         pending[i].submissionId)} :
              /\ bestAnswers' = ApplyBestAnswerCalls(bestAnswers, calls)
              /\ rpc' = pending[i].calls \o calls
        /\ pending' = WithoutCall(i)
        /\ op' = SaveReturned(pending[i], pending[i].currentBest)
        /\ UNCHANGED <<questions, submissions, history, ops, page>>

\* every hash a question row, a submission or a best answer refers to
KnownHashes ==
    {questions[i].question_hash : i \in 1..Len(questions)}
    \cup {submissions[i].question_hash : i \in 1..Len(submissions)}
    \cup DOMAIN bestAnswers

\* the old hash of the merge before, which a caller can pass again
RetiredHashes ==
    IF op.name = "mergeQuestionRecords" THEN {op.oldHash} ELSE {}

MergeQuestionRecords ==
    /\ ops < MaxOps
    /\ \E oldHash \in KnownHashes \cup RetiredHashes, newHash \in KnownHashes,
          response \in {"success", "failed", "error"} :
        /\ oldHash # newHash
        /\ \E r \in {mergeQuestionRecords(CurrentStore, oldHash, newHash,
                                          response)} :
               /\ questions' = r.store.questions
               /\ submissions' = r.store.submissions
               /\ bestAnswers' = r.store.bestAnswers
               /\ rpc' = r.rpc
               /\ op' = [name |-> "mergeQuestionRecords", oldHash |-> oldHash,
                         newHash |-> newHash, response |-> response,
                         success |-> response = "success",
                         raised |-> r.raised,
                         repeats |-> /\ op.name = "mergeQuestionRecords"
                                     /\ op.oldHash = oldHash
                                     /\ op.newHash = newHash
                                     /\ op.success,
                         updated_submissions |->
                            IF response = "success"
                            THEN Len(SelectSeq(submissions,
                                       LAMBDA row : row.question_hash = oldHash))
                            ELSE 0]
    /\ ops' = ops + 1
    /\ UNCHANGED <<history, pending, page>>

\* the calls that run the batch: the method itself, and enhancedMain
\* through getEnhancedCorrectAnswers
RunKinds == {"processCanvasSubmissionsWithQuestionData", "enhancedMain"}

\* the awaits of a run in the order of the code: getQuizSubmissions (in
\* getEnhancedCorrectAnswers), the lookup of the existing questions (after
\* qb_save_course and qb_save_quiz, which leave the rows kept here alone),
\* the three batch writes, the merge calls one by one, and the first
\* lookup of the loop of getEnhancedCorrectAnswers after the batch
PhaseOrder ==
    <<"history", "lookup", "questions", "submissions", "bestAnswers",
      "merges", "findByContent">>

PhaseIndex(phase) == CHOOSE k \in 1..Len(PhaseOrder) : PhaseOrder[k] = phase

\* a run that raised: the store call named by thrownAt, or getCorrectAnswers
\* after the batch on a history it cannot iterate
runRaised(run) ==
    \/ run.failed # "none"
    \/ /\ run.kind = "enhancedMain"
       /\ getCorrectAnswers(run.submissions).raised

\* whether the run sends a call in the phase: a batch function returns
\* without a call on an empty list
hasAwait(run, phase) ==
    CASE phase = "lookup"      -> run.submissions # <<>>
      [] phase = "questions"   -> /\ run.prepared
                                  /\ run.prep.questionsToSave # <<>>
      [] phase = "submissions" -> /\ run.prepared
                                  /\ run.prep.submissionsToSave # <<>>
      [] phase = "bestAnswers" -> /\ run.prepared
                                  /\ run.prep.deduplicatedBestAnswers # <<>>
      [] phase = "merges"      -> /\ run.prepared
                                  /\ run.merged < Len(mergeCalls(run.prep.merges,
                                                                 run.failAt))
      [] phase = "findByContent" -> /\ run.kind = "enhancedMain"
                                    /\ ~runRaised(run)
                                    /\ Len(run.sources) < Len(run.domQuestions)
      [] OTHER                 -> FALSE

\* the await the run is suspended at after the answer of run.pc, or
\* "return" when the run is over
nextAwait(run) ==
    IF run.failed # "none" THEN "return"
    ELSE IF run.pc \in LookupPhases
    THEN (IF run.lookup # "none" THEN run.lookup
          ELSE IF hasAwait(run, "findByContent") THEN "findByContent"
          ELSE "return")
    ELSE LET from == IF run.pc = "merges" THEN PhaseIndex("merges")
                      ELSE PhaseIndex(run.pc) + 1
             rest == {k \in from..Len(PhaseOrder) :
                          hasAwait(run, PhaseOrder[k])}
         IN  IF rest = {} THEN "return"
             ELSE PhaseOrder[CHOOSE k \in rest : \A j \in rest : k <= j]

\* a call of processCanvasSubmissionsWithQuestionData before its lookup
startedBatch(courseId, quizId, subs, domQuestions, mayFail) ==
    [kind |-> "processCanvasSubmissionsWithQuestionData",
     pc |-> "lookup", courseId |-> courseId,
     quizId |-> quizId, apiText |-> FALSE, submissions |-> subs,
     domQuestions |-> domQuestions, mayFail |-> mayFail,
     thrownAt |-> "none", failed |-> "none", prepared |-> FALSE,
     prep |-> <<>>, failAt |-> 0,
     merged |-> 0, saved |-> <<>>, storedBest |-> <<>>,
     storedSubmissions |-> 0, calls |-> <<>>, failedBefore |-> <<>>,
     repeats |-> FALSE, sources |-> <<>>, dbQuestion |-> Null,
     bestAnswer |-> Null, lookup |-> "none"]

\* a call of enhancedMain before the answer of getQuizSubmissions: the
\* questions of the page are not read yet
startedEnhancedMain(courseId, quizId, apiText, thrownAt) ==
    [startedBatch(courseId, quizId, <<>>, <<>>, FALSE) EXCEPT
        !.kind = "enhancedMain", !.pc = "history", !.apiText = apiText,
        !.thrownAt = thrownAt]

\* the call a run sends in its current phase
callOf(run) ==
    CASE run.pc = "history"     -> << >>
      [] run.pc = "lookup"      ->
            << [name |-> "qb_save_course"], [name |-> "qb_save_quiz"],
               [name |-> "qb_get_existing_questions_by_canvas_ids"] >>
      [] run.pc = "questions"   ->
            << [name |-> "qb_batch_save_questions",
                rows |-> run.prep.questionsToSave] >>
      [] run.pc = "submissions" ->
            << [name |-> "qb_batch_save_submissions",
                rows |-> run.prep.submissionsToSave] >>
      [] run.pc = "bestAnswers" ->
            << [name |-> "qb_batch_update_best_answers",
                rows |-> withSubmissionIds(run.prep.deduplicatedBestAnswers,
                                           run.saved)] >>
      [] run.pc = "merges"      ->
            << mergeCalls(run.prep.merges, run.failAt)[run.merged + 1] >>
      [] OTHER                  -> lookupCall(run)

\* the call the run is suspended at as the call log records it when the
\* call raises: it was sent, and it did not succeed
raisedCallOf(run) ==
    IF run.pc = "merges"
    THEN << [callOf(run)[1] EXCEPT !.success = FALSE] >>
    ELSE callOf(run)

\* whether the call the run is suspended at raises
raisesNow(run) ==
    /\ run.thrownAt = CASE run.pc = "bestAnswers" -> "qb_batch_update_best_answers"
                        [] run.pc = "merges" -> "qb_merge_question_records"
                        [] OTHER -> "never"

\* the store after the answer of the call the run is suspended at
storeAfterAnswer(store, run) ==
    IF raisesNow(run) THEN store
    ELSE CASE run.pc = "questions" ->
                [store EXCEPT !.questions =
                    qbBatchSaveQuestions(@, run.prep.questionsToSave)]
           [] run.pc = "submissions" ->
                [store EXCEPT !.submissions =
                    qbBatchSaveSubmissions(@, run.prep.submissionsToSave)]
           [] run.pc = "bestAnswers" ->
                [store EXCEPT !.bestAnswers =
                    qbBatchUpdateBestAnswers(@,
                        withSubmissionIds(run.prep.deduplicatedBestAnswers,
                                          run.saved))]
           [] run.pc = "merges" ->
                runMerges(store, <<run.prep.merges[run.merged + 1]>>,
                          run.merged + 1, run.failAt)
           [] OTHER -> store

\* the locals of the run after the answer of the call it is suspended at;
\* after the answer of getQuizSubmissions the run reads the questions from
\* the elements of the document as they are then.  The answer of a lookup
\* of getEnhancedCorrectAnswers is applied by lookupAnswered
runAfterAnswer(store, hist, elements, run) ==
    IF raisesNow(run)
    THEN [run EXCEPT !.failed = run.thrownAt,
                     !.calls = @ \o raisedCallOf(run)]
    ELSE CASE run.pc = "history" ->
                [run EXCEPT !.submissions = canvasSubmissions(hist, run.apiText),
                            !.domQuestions = getCurrentQuizQuestions(elements)]
           [] run.pc = "lookup" ->
                [run EXCEPT !.prep = prepareBatch(store, run.courseId,
                                         run.quizId, run.submissions,
                                         run.domQuestions),
                            !.prepared = TRUE,
                            !.storedBest = store.bestAnswers,
                            !.storedSubmissions = Len(store.submissions),
                            !.calls = callOf(run)]
           [] run.pc = "submissions" ->
                [run EXCEPT !.saved = savedSubmissionsOf(store.submissions,
                                          run.prep.submissionsToSave),
                            !.calls = @ \o callOf(run)]
           [] run.pc = "merges" ->
                [run EXCEPT !.merged = @ + 1, !.calls = @ \o callOf(run)]
           [] OTHER -> [run EXCEPT !.calls = @ \o callOf(run)]

\* the last operation as a completed run
runReturned(run) ==
    IF run.kind = "enhancedMain"
    THEN [name |-> "enhancedMain", courseId |-> run.courseId,
          quizId |-> run.quizId, apiText |-> run.apiText,
          domQuestions |-> run.domQuestions, thrownAt |-> run.thrownAt,
          failed |-> IF run.failed # "none" THEN run.failed
                     ELSE IF runRaised(run) THEN "getCorrectAnswers"
                     ELSE "none",
          raised |-> runRaised(run),
          submissionsToSave |-> IF run.prepared
                                THEN run.prep.submissionsToSave ELSE <<>>,
          saved |-> run.saved,
          stored |-> run.storedSubmissions,
          currentQuestions |-> Len(run.domQuestions),
          displayed |-> ~runRaised(run) /\ Len(run.domQuestions) > 0,
          sources |-> run.sources]
    ELSE [name |-> run.kind, courseId |-> run.courseId,
          quizId |-> run.quizId, submissions |-> run.submissions,
          domQuestions |-> run.domQuestions, prep |-> run.prep,
          failAt |-> run.failAt, storedBest |-> run.storedBest,
          saved |-> run.saved, failedBefore |-> run.failedBefore,
          apiText |-> run.apiText]

\* a call of processCanvasSubmissionsWithQuestionData on the submission
\* history, as the preview panel makes it when the history is not empty:
\* suspended before its lookup.  Calls that overlap come from the same
\* page: the same quiz, the same DOM questions and the same kind of history
ProcessCanvasSubmissions ==
    /\ ops < MaxOps
    /\ Len(history) > 0
    /\ \E courseId \in CourseIds, quizId \in QuizIds, apiText \in BOOLEAN,
          domQuestions \in DomChoices :
          /\ \A i \in 1..Len(pending) :
                /\ pending[i].quizId = quizId
                /\ pending[i].apiText = apiText
                /\ pending[i].domQuestions = domQuestions
          /\ pending' = Append(pending,
                [startedBatch(courseId, quizId,
                              canvasSubmissions(history, apiText),
                              domQuestions, TRUE) EXCEPT !.apiText = apiText])
    /\ op' = Suspended("processCanvasSubmissionsWithQuestionData", "lookup")
    /\ rpc' = <<>>
    /\ ops' = ops + 1
    /\ UNCHANGED <<questions, submissions, bestAnswers, history, page>>

\* the store answers the call a run is suspended at: the call takes effect,
\* and the run goes on to its next await or returns; the collaborator may
\* report one of the merge calls of the run as failed.  The lookups of
\* getEnhancedCorrectAnswers for the questions of the page are answered
\* one by one, each from the store as it is then; with the answer of the
\* last one the run has its enhanced answers, and displayEnhancedAnswers
\* puts the source badges in the document
RunProcedureAnswered ==
    \E i \in 1..Len(pending) :
        /\ pending[i].kind \in RunKinds
        /\ \E store \in {storeAfterAnswer(CurrentStore, pending[i])},
              answered \in {runAfterAnswer(CurrentStore, history,
                                           page.elements, pending[i])} :
           \E failAt \in (IF pending[i].pc = "lookup" /\ pending[i].mayFail
                          THEN 0..Len(answered.prep.merges)
                          ELSE {answered.failAt}),
              answer \in lookupAnswers(CurrentStore, pending[i]) :
           \E run \in {lookupAnswered([answered EXCEPT !.failAt = failAt],
                                      answer)} :
           \E next \in {nextAwait(run)} :
              /\ questions' = store.questions
              /\ submissions' = store.submissions
              /\ bestAnswers' = store.bestAnswers
              /\ page' = IF pending[i].pc \in LookupPhases /\ next = "return"
                         THEN [page EXCEPT !.elements =
                                  displayEnhancedAnswers(@, run.domQuestions,
                                                         run.sources)]
                         ELSE page
              /\ IF next = "return"
                 THEN /\ pending' = WithoutCall(i)
                      /\ op' = runReturned(run)
                      /\ rpc' = run.calls
                 ELSE /\ pending' = [pending EXCEPT ![i] =
                                        [run EXCEPT !.pc = next]]
                      /\ op' = Suspended(run.kind, next)
                      /\ rpc' = callOf(pending[i])
        /\ UNCHANGED <<history, ops>>

Next ==
    \/ TakeAttempt
    \/ ProcessCanvasSubmissions
    \/ RunProcedureAnswered
    \/ MergeQuestionRecords

Spec == Init /\ [][Next]_vars

NextSave ==
    \/ SaveSubmission
    \/ UpdateBestAnswer
    \/ GetBestAnswerAnswered
    \/ UpdateBestAnswerAnswered

SpecSave == InitSave /\ [][NextSave]_vars

\* saveSubmission calls made one after the other: a call starts when the
\* call before it has returned
SaveSubmissionInTurn ==
    /\ pending = <<>>
    /\ SaveSubmission

NextSaveSequence ==
    \/ SaveSubmissionInTurn
    \/ GetBestAnswerAnswered
    \/ UpdateBestAnswerAnswered

SpecSaveSequence == InitSave /\ [][NextSaveSequence]_vars

(***************************************************************************)
(* The deduplication of best-answer candidates on its own                  *)
(***************************************************************************)

\* a candidate as the loop pushes it: the i-th entry of the run, for a
\* question with the given hash, with the given inline confidence
candidateOfEntry(i, questionHash, confidence) ==
    [question_hash        |-> questionHash,
     answer_text          |-> Some("A"),
     answer_fields        |-> Some([question_id |-> i]),
     confidence_score     |-> confidence,
     source_submission_id |-> Null]

CandidateChoices ==
    {<<h, c>> : h \in {HashSum, HashSum3}, c \in {Frac(2, 5), Frac(9, 10)}}

CandidateLists ==
    UNION {[1..n -> CandidateChoices] : n \in 1..MaxCandidates}

InitDedup ==
    /\ questions = <<>>
    /\ submissions = <<>>
    /\ bestAnswers = <<>>
    /\ history = <<>>
    /\ rpc = <<>>
    /\ ops = 0
    /\ page = NoPage
    /\ pending = <<>>
    /\ \E choices \in CandidateLists :
          op = [name |-> "candidates",
                bestAnswersToUpdate |->
                    [i \in 1..Len(choices) |->
                        candidateOfEntry(i, choices[i][1], choices[i][2])]]

DeduplicateBestAnswers ==
    /\ op.name = "candidates"
    /\ op' = [name |-> "deduplicate",
              bestAnswersToUpdate |-> op.bestAnswersToUpdate,
              deduplicatedBestAnswers |->
                  deduplicateBestAnswers(op.bestAnswersToUpdate, <<>>)]
    /\ UNCHANGED <<questions, submissions, bestAnswers, history, rpc, ops, pending, page>>

NextDedup == DeduplicateBestAnswers

SpecDedup == InitDedup /\ [][NextDedup]_vars

(***************************************************************************)
(* Re-running the batch after a run in which a merge failed                *)
(***************************************************************************)

MaxRuns == 3        \* batch runs of one session, the first one included
MaxInFlight == 2    \* runs of one session suspended at the same time

\* two earlier runs: first without any question text, then with a DOM in
\* which both questions show the same text
SeedSameText ==
    With(storeAfterBatch(EmptyStore, SeedHistory, FALSE, DomNone),
         LAMBDA store : storeAfterBatch(store, SeedHistory, FALSE, DomSame))

RetrySeeds ==
    {seed \in Seeds : seed.history # <<>>}
    \cup {[store |-> SeedSameText, history |-> SeedHistory]}

InitRetry ==
    \E seed \in RetrySeeds :
        /\ questions = seed.store.questions
        /\ submissions = seed.store.submissions
        /\ bestAnswers = seed.store.bestAnswers
        /\ history = seed.history
        /\ rpc = <<>>
        /\ op = [name |-> "init"]
        /\ ops = 0
        /\ page = NoPage
        /\ pending = <<>>

\* the first run of the session: the collaborator may report one of the
\* merges as failed
FirstRun ==
    /\ ops = 0
    /\ ProcessCanvasSubmissions

\* the run is called again for the same quiz and with the same inputs, be
\* the runs before it suspended or over, with a collaborator that confirms
\* every merge.  failedBefore is the merge that failed in the run that
\* returned last; repeats tells that the run that returned last had no
\* failed merge
RunAgain ==
    /\ ops > 0
    /\ ops < MaxRuns
    /\ Len(pending) < MaxInFlight
    /\ \E before \in {IF pending # <<>> THEN pending[1] ELSE op} :
          pending' = Append(pending,
              [startedBatch(before.courseId, before.quizId,
                            before.submissions, before.domQuestions, FALSE)
               EXCEPT !.apiText = before.apiText,
                      !.failedBefore =
                          IF op.name = "processCanvasSubmissionsWithQuestionData"
                             /\ op.failAt > 0
                          THEN <<op.prep.merges[op.failAt]>> ELSE <<>>,
                      !.repeats =
                          /\ op.name = "processCanvasSubmissionsWithQuestionData"
                          /\ op.failAt = 0])
    /\ op' = Suspended("processCanvasSubmissionsWithQuestionData", "lookup")
    /\ rpc' = <<>>
    /\ ops' = ops + 1
    /\ UNCHANGED <<questions, submissions, bestAnswers, history, page>>

NextRetry ==
    \/ FirstRun
    \/ RunAgain
    \/ RunProcedureAnswered

\* the caller runs the batch again as long as the session lasts, and the
\* store answers every call
SpecRetry ==
    /\ InitRetry
    /\ [][NextRetry]_vars
    /\ WF_vars(RunAgain)
    /\ WF_vars(RunProcedureAnswered)

(***************************************************************************)
(* saveQuestion next to the batch: the quality stored for a hash           *)
(***************************************************************************)

\* qb_save_question: upsert of the question row by question hash
qbSaveQuestion(qs, row) ==
    IF \E i \in 1..Len(qs) : qs[i].question_hash = row.question_hash
    THEN [i \in 1..Len(qs) |->
            IF qs[i].question_hash = row.question_hash THEN row ELSE qs[i]]
    ELSE Append(qs, row)

\* saveQuestion: the hash and the quality of the text, then one
\* qb_save_question call
saveQuestion(store, questionText, questionType, courseId, quizId, canvasQuestionId, options, textSource) ==
    With(generateQuestionHash(questionText, questionType, options),
         LAMBDA questionHash :
    With([question_hash      |-> questionHash,
          question_text      |-> questionText,
          question_type      |-> questionType,
          course_id          |-> courseId,
          first_seen_quiz_id |-> quizId,
          text_quality_score |-> calculateTextQuality(questionText, textSource),
          text_source        |-> textSource,
          metadata           |-> [options |-> options,
                                  canvas_question_id |-> canvasQuestionId]],
         LAMBDA row :
        [store |-> [store EXCEPT !.questions = qbSaveQuestion(@, row)],
         rpc |-> << [name |-> "qb_save_question", row |-> row] >>,
         question_hash |-> questionHash]))

\* the texts and sources saveQuestion is called with
SavedTexts == {TextSum, TextSumApi, TextSum3}
TextSources == {"dom", "canvas_api"}

\* a quiz was taken, nothing is stored yet
InitQuality ==
    /\ questions = <<>>
    /\ submissions = <<>>
    /\ bestAnswers = <<>>
    /\ history \in {SeedHistory, <<attemptOf(OutcomeWrong, OutcomeFull)>>}
    /\ rpc = <<>>
    /\ op = [name |-> "init"]
    /\ ops = 0
    /\ page = NoPage
    /\ pending = <<>>

SaveQuestion ==
    /\ ops < MaxOps
    /\ \E questionText \in SavedTexts, textSource \in TextSources,
          courseId \in CourseIds, quizId \in QuizIds,
          canvasQuestionId \in QuestionIds :
        \E r \in {saveQuestion(CurrentStore, questionText, TypeShortAnswer,
                               courseId, quizId, canvasQuestionId, Null,
                               textSource)} :
            /\ questions' = r.store.questions
            /\ submissions' = r.store.submissions
            /\ bestAnswers' = r.store.bestAnswers
            /\ rpc' = r.rpc
            /\ op' = [name |-> "saveQuestion", questionText |-> questionText,
                      textSource |-> textSource,
                      canvasQuestionId |-> canvasQuestionId,
                      question_hash |-> r.question_hash]
    /\ ops' = ops + 1
    /\ UNCHANGED <<history, pending, page>>

NextQuality ==
    \/ SaveQuestion
    \/ ProcessCanvasSubmissions
    \/ RunProcedureAnswered

SpecQuality == InitQuality /\ [][NextQuality]_vars

(***************************************************************************)
(* generateQuestionHash and calculateTextQuality on their own              *)
(***************************************************************************)

TextSumTabs == <<87, 72, 65, 84, 9, 10, 105, 115, 32, 32, 32, 50, 43, 50, 63>>
                                                \* "WHAT\t\nis   2+2?"
TextQuestionId == <<81, 117, 101, 115, 116, 105, 111, 110, 32, 73, 68, 32, 53>>
                                                \* "Question ID 5"
OptParisLoud == <<32, 80, 65, 82, 73, 83, 33>>  \* " PARIS!"

\* a text longer than the length the quality score counts
LongLen == 205
TextLong == [i \in 1..LongLen |-> IF i = LongLen THEN 63 ELSE 97]

HashTexts == {TextSum, TextSumApi, TextSumTabs, TextSum3, <<>>}
HashTypes == {TypeShortAnswer, TypeMultipleChoice, <<>>}
HashOptions ==
    { Null, Some(<<>>), Some(<<OptParis, OptRome>>), Some(<<OptRome, OptParis>>),
      Some(<<OptRome, OptParisLoud>>), Some(<<OptRome>>) }

TextQuestion5 == <<81, 117, 101, 115, 116, 105, 111, 110, 32, 53>>
                                                \* "Question 5"
TextWhatCapital == <<87, 104, 97, 116, 32, 105, 115, 32, 116, 104, 101, 32, 99,
                     97, 112, 105, 116, 97, 108, 32, 111, 102, 32, 70, 114, 97,
                     110, 99, 101, 63>>         \* "What is the capital of France?"

QualityTexts ==
    {<<>>, TextQuestion7, TextQuestionId, TextSum, TextCapital, TextLong,
     TextQuestion5, TextWhatCapital}
QualitySources == {"dom", "canvas_api", "placeholder"}

HashInputs ==
    {[name |-> "input", fn |-> "generateQuestionHash", questionText |-> t,
      questionType |-> ty, options |-> o, previous |-> <<>>] :
        t \in HashTexts, ty \in HashTypes, o \in HashOptions}

QualityInputs ==
    {[name |-> "input", fn |-> "calculateTextQuality", questionText |-> t,
      source |-> s] : t \in QualityTexts, s \in QualitySources}

InitFunctions ==
    /\ questions = <<>>
    /\ submissions = <<>>
    /\ bestAnswers = <<>>
    /\ history = <<>>
    /\ rpc = <<>>
    /\ op \in HashInputs \cup QualityInputs
    /\ ops = 0
    /\ page = NoPage
    /\ pending = <<>>

GenerateQuestionHash ==
    /\ op.name = "input"
    /\ op.fn = "generateQuestionHash"
    /\ \E result \in {generateQuestionHash(op.questionText, op.questionType,
                                          op.options)} :
          op' = [name |-> "generateQuestionHash",
                 questionText |-> op.questionText,
                 questionType |-> op.questionType, options |-> op.options,
                 previous |-> op.previous, result |-> result]
    /\ ops' = ops + 1
    /\ UNCHANGED <<questions, submissions, bestAnswers, history, rpc, pending, page>>

\* the arguments of another call, the call before it kept for comparison
AnotherHashInput ==
    /\ op.name = "generateQuestionHash"
    /\ op.previous = <<>>
    /\ \E input \in HashInputs :
          op' = [input EXCEPT !.previous =
                    << [questionText |-> op.questionText,
                        questionType |-> op.questionType,
                        options |-> op.options, result |-> op.result] >>]
    /\ UNCHANGED <<questions, submissions, bestAnswers, history, rpc, ops, pending, page>>

CalculateTextQuality ==
    /\ op.name = "input"
    /\ op.fn = "calculateTextQuality"
    /\ \E result \in {calculateTextQuality(op.questionText, op.source)} :
          op' = [name |-> "calculateTextQuality",
                 questionText |-> op.questionText, source |-> op.source,
                 result |-> result]
    /\ ops' = ops + 1
    /\ UNCHANGED <<questions, submissions, bestAnswers, history, rpc, pending, page>>

NextFunctions ==
    \/ GenerateQuestionHash
    \/ AnotherHashInput
    \/ CalculateTextQuality

SpecFunctions == InitFunctions /\ [][NextFunctions]_vars

(***************************************************************************)
(* Store calls that raise: safeRpcCall throws the error of the call        *)
(***************************************************************************)

\* the call of a batch execution that raises, if any
ThrowPoints ==
    {"none", "qb_batch_update_best_answers", "qb_merge_question_records"}

\* a history whose second attempt carries no submission_data
SeedHistoryNoData == Append(SeedHistory, [submission_data |-> Null])

InitFailure ==
    \E seed \in Seeds \cup {[store |-> EmptyStore, history |-> SeedHistory],
                            [store |-> EmptyStore,
                             history |-> SeedHistoryNoData]},
       quizId \in {10}, domQuestions \in DomChoices, apiText \in BOOLEAN :
        /\ questions = seed.store.questions
        /\ submissions = seed.store.submissions
        /\ bestAnswers = seed.store.bestAnswers
        /\ history = seed.history
        /\ rpc = <<>>
        /\ op = [name |-> "init"]
        /\ ops = 0
        /\ page = [courseId |-> 1, quizId |-> quizId, apiText |-> apiText,
                   elements |-> pageElements(domQuestions)]
        /\ pending = <<>>

\* enhancedMain on the quiz-taking page with valid access, suspended in
\* getEnhancedCorrectAnswers at getQuizSubmissions.  The run goes on to
\* read the questions of the page, to the batch on a history that is not
\* empty, then to getCorrectAnswers and to the lookups for the questions it
\* read, and displayEnhancedAnswers is called when answers came back; an
\* error of the batch or of getCorrectAnswers is not caught in
\* getEnhancedCorrectAnswers, enhancedMain catches and logs it.  thrownAt is
\* the store call that raises at its first use, if any
EnhancedMain ==
    /\ ops < MaxOps
    /\ \E thrownAt \in ThrowPoints :
          pending' = Append(pending,
                startedEnhancedMain(page.courseId, page.quizId, page.apiText,
                                    thrownAt))
    /\ op' = Suspended("enhancedMain", "history")
    /\ rpc' = <<>>
    /\ ops' = ops + 1
    /\ UNCHANGED <<questions, submissions, bestAnswers, history, page>>

\* the best-answer call a saveSubmission is suspended at raises:
\* safeRpcCall throws, updateBestAnswer and saveSubmission do not catch, and
\* the error reaches the caller of saveSubmission; the submission is stored
SaveSubmissionThrowing ==
    \E i \in 1..Len(pending) :
        /\ pending[i].kind = "saveSubmission"
        /\ pending' = WithoutCall(i)
        /\ op' = [SaveReturned(pending[i], pending[i].currentBest) EXCEPT
                     !.failed = "updateBestAnswer", !.raised = TRUE]
        /\ rpc' = Append(pending[i].calls,
                         [name |-> IF pending[i].pc = "getBestAnswer"
                                   THEN "qb_get_best_answer"
                                   ELSE "qb_update_best_answer",
                          question_hash |-> pending[i].questionHash])
        /\ UNCHANGED <<questions, submissions, bestAnswers, history, ops, page>>

NextFailure ==
    \/ EnhancedMain
    \/ RunProcedureAnswered
    \/ SaveSubmission
    \/ GetBestAnswerAnswered
    \/ UpdateBestAnswerAnswered
    \/ SaveSubmissionThrowing

SpecFailure == InitFailure /\ [][NextFailure]_vars

(***************************************************************************)
(* One tab: the runs of enhancedMain and their awaits                      *)
(***************************************************************************)

MaxTabRuns == 2     \* runs of enhancedMain started in one tab

\* the page of the tab: its quiz, the question elements of its document
\* and whether the submission history carries question text.  The
\* initialization has scheduled its setTimeout callback, which is pending
InitTab ==
    \E seed \in {s \in Seeds : s.history # <<>>}
                   \cup {[store |-> EmptyStore, history |-> SeedHistory]},
       quizId \in QuizIds, domQuestions \in DomChoices, apiText \in BOOLEAN :
        /\ questions = seed.store.questions
        /\ submissions = seed.store.submissions
        /\ bestAnswers = seed.store.bestAnswers
        /\ history = seed.history
        /\ rpc = <<>>
        /\ op = [name |-> "tab"]
        /\ ops = 0
        /\ page = [courseId |-> 1, quizId |-> quizId, apiText |-> apiText,
                   elements |-> pageElements(domQuestions)]
        /\ pending = << [kind |-> "setTimeout", pc |-> "timer"] >>

\* the setTimeout callback of the initialization calls enhancedMain
InitialTimer ==
    \E i \in 1..Len(pending) :
        /\ pending[i].kind = "setTimeout"
        /\ ops < MaxTabRuns
        /\ pending' = Append(WithoutCall(i),
              startedEnhancedMain(page.courseId, page.quizId, page.apiText,
                                  "none"))
        /\ op' = Suspended("enhancedMain", "history")
        /\ rpc' = <<>>
        /\ ops' = ops + 1
        /\ UNCHANGED <<questions, submissions, bestAnswers, history, page>>

\* the onMessage listener calls enhancedMain on an 'activated' message,
\* whatever the state of the runs before it; the run reads the document as
\* the runs before it left it
Activated ==
    /\ ops < MaxTabRuns
    /\ pending' = Append(pending,
          startedEnhancedMain(page.courseId, page.quizId, page.apiText,
                              "none"))
    /\ op' = Suspended("enhancedMain", "history")
    /\ rpc' = <<>>
    /\ ops' = ops + 1
    /\ UNCHANGED <<questions, submissions, bestAnswers, history, page>>

NextTab ==
    \/ InitialTimer
    \/ Activated
    \/ RunProcedureAnswered

SpecTab == InitTab /\ [][NextTab]_vars

(***************************************************************************)
(* getCorrectAnswers on a submission history                               *)
(***************************************************************************)

\* an attempt marked partial that earned more points than a correct one
OutcomePartialHigh ==
    [correct |-> "partial", points |-> Some(3), points_possible |-> Some(4),
     text |-> Some("E"), answer_id |-> Some(104)]

\* a correct attempt whose points are null
OutcomeNullPoints ==
    [correct |-> "true", points |-> JsNull, points_possible |-> JsNull,
     text |-> Some("D"), answer_id |-> Null]

AnswerAttempts ==
    {attemptOf(o5, o7) :
        o5 \in Outcomes5 \cup {OutcomePartialHigh, OutcomeNullPoints},
        o7 \in Outcomes7}
    \cup {[submission_data |-> Null]}

\* the submission histories getCorrectAnswers is called with
AnswerHistories ==
    UNION {[1..n -> AnswerAttempts] : n \in 1..MaxAttempts}

InitAnswers ==
    /\ questions = <<>>
    /\ submissions = <<>>
    /\ bestAnswers = <<>>
    /\ history \in AnswerHistories
    /\ rpc = <<>>
    /\ op = [name |-> "input"]
    /\ ops = 0
    /\ page = NoPage
    /\ pending = <<>>

GetCorrectAnswers ==
    /\ op.name = "input"
    /\ \E r \in {getCorrectAnswers(history)} :
          op' = [name |-> "getCorrectAnswers", raised |-> r.raised,
                 result |-> r.questions]
    /\ ops' = ops + 1
    /\ UNCHANGED <<questions, submissions, bestAnswers, history, rpc, pending, page>>

NextAnswers == GetCorrectAnswers

SpecAnswers == InitAnswers /\ [][NextAnswers]_vars

(***************************************************************************)
(* Access control of SupabaseQuizManager                                   *)
(***************************************************************************)

\* the cached access record of the browser storage: whether its expires_at
\* lies in the future, and its is_revoked flag
CachedAccesses == {[current |-> c, is_revoked |-> r] : c, r \in BOOLEAN}

\* the outcomes of the read of the cached record from the browser storage
StorageResponses == {"throws", "read"}

\* the answers of the check_access procedure: an error, has_access or no
\* access
CheckResponses == {"error", "has_access", "no_access"}

\* the outcomes of a data procedure
DataResponses == {"ok", "ACCESS_DENIED", "error"}

\* the fields of a new SupabaseQuizManager
NewManager == [initialized |-> FALSE, hasAccess |-> FALSE, accessChecked |-> FALSE]

\* the cached record is present, not expired and not revoked
cacheValid(cachedAccess) ==
    /\ cachedAccess # Null
    /\ cachedAccess[1].current
    /\ ~cachedAccess[1].is_revoked

\* the operations of the manager followed through their awaits
AccessKinds ==
    {"hasValidAccess", "getAllSubmissions", "handleActivate", "initializePopup"}

\* a call of an operation of the manager before its first statement: pc is
\* the await it is suspended at, cachedAccess the record its checkAccess
\* read from the storage, before the manager as the call found it, checked
\* whether its checkAccess went past the first return, result what its
\* checkAccess returned
accessCall(kind, m) ==
    [kind |-> kind, pc |-> "start", cachedAccess |-> Null, before |-> m,
     checked |-> FALSE, result |-> FALSE, raised |-> Null, calls |-> <<>>]

\* checkAccess from the point the call s.call is at up to its next await
\* or its return (pc "checked"); s.m is the manager, s.cachedAccess the
\* record in the storage, response the answer to the await.  The await of
\* getDeviceId touches neither and is passed over
checkAccess(s, response) ==
    CASE s.call.pc = "start" ->
            IF s.m.accessChecked /\ s.m.hasAccess
            THEN [s EXCEPT !.call.pc = "checked",
                           !.call.result = s.m.hasAccess]
            ELSE [s EXCEPT !.call.pc = "storageRead", !.call.checked = TRUE]
      [] s.call.pc = "storageRead" ->
            IF response = "throws"
            THEN [s EXCEPT !.m.accessChecked = TRUE,
                           !.call.pc = "checked", !.call.result = FALSE]
            ELSE IF cacheValid(s.cachedAccess)
            THEN [s EXCEPT !.m.hasAccess = TRUE, !.m.accessChecked = TRUE,
                           !.call.cachedAccess = s.cachedAccess,
                           !.call.pc = "checked", !.call.result = TRUE]
            ELSE [s EXCEPT !.call.cachedAccess = s.cachedAccess,
                           !.call.pc = "check_access"]
      [] s.call.pc = "check_access" ->
            With(Append(s.call.calls, [name |-> "check_access"]),
                 LAMBDA calls :
                    IF response = "error"
                    THEN With(/\ s.call.cachedAccess # Null
                              /\ s.call.cachedAccess[1].current,
                              LAMBDA has :
                                [s EXCEPT !.m.hasAccess = has,
                                          !.m.accessChecked = TRUE,
                                          !.call.calls = calls,
                                          !.call.pc = "checked",
                                          !.call.result = has])
                    ELSE IF response = "has_access"
                    THEN [s EXCEPT !.m.hasAccess = TRUE,
                                   !.call.calls = calls,
                                   !.call.pc = "storageWrite"]
                    ELSE [s EXCEPT !.m.hasAccess = FALSE,
                                   !.m.accessChecked = TRUE,
                                   !.call.calls = calls,
                                   !.call.pc = "checked",
                                   !.call.result = FALSE])
      [] s.call.pc = "storageWrite" ->
            [s EXCEPT !.cachedAccess = Some([current |-> TRUE,
                                             is_revoked |-> FALSE]),
                      !.m.accessChecked = TRUE,
                      !.call.pc = "checked", !.call.result = s.m.hasAccess]
      [] OTHER -> s

\* hasValidAccess: returns what checkAccess returned
hasValidAccess(s, response) ==
    With(checkAccess(s, response),
         LAMBDA c : IF c.call.pc = "checked"
                    THEN [c EXCEPT !.call.pc = "return"] ELSE c)

\* requireAccess after its checkAccess returned: ACCESS_REQUIRED is raised
\* when it returned false
requireAccess(s) ==
    IF s.call.result THEN s
    ELSE [s EXCEPT !.call.raised = Some("ACCESS_REQUIRED")]

\* init of a manager that is not initialized: requireAccess, and when it
\* did not raise, initialized is set and the caller goes on to its data
\* procedure.  When checkAccess returns at once, the call gives way at the
\* awaits of requireAccess and init before initialized is set (pc
\* "requireAccess"): a call made before it goes on finds the manager not
\* initialized
init(s, response) ==
    IF s.call.pc = "requireAccess"
    THEN [s EXCEPT !.m.initialized = TRUE, !.call.pc = "data"]
    ELSE With(checkAccess(s, response),
              LAMBDA c :
                IF c.call.pc # "checked" THEN c
                ELSE With(requireAccess(c),
                          LAMBDA r :
                            IF r.call.raised # Null
                            THEN [r EXCEPT !.call.pc = "return"]
                            ELSE IF s.call.pc = "start"
                            THEN [r EXCEPT !.call.pc = "requireAccess"]
                            ELSE [r EXCEPT !.m.initialized = TRUE,
                                           !.call.pc = "data"]))

\* handleAccessDenied: an ACCESS_DENIED error clears the access flags, and
\* after the await of the storage the cached record is removed
handleAccessDenied(s, response) ==
    IF s.call.pc = "data"
    THEN [s EXCEPT !.m.hasAccess = FALSE, !.m.accessChecked = FALSE,
                   !.call.pc = "storageRemove"]
    ELSE [s EXCEPT !.cachedAccess = Null, !.call.pc = "return",
                   !.call.raised = Some("ACCESS_REVOKED")]

\* safeRpcCall: the answer of the procedure; an error is raised again, as
\* ACCESS_REVOKED after handleAccessDenied when it was ACCESS_DENIED
safeRpcCall(s, rpcName, response) ==
    IF s.call.pc = "storageRemove" THEN handleAccessDenied(s, response)
    ELSE With([s EXCEPT !.call.calls = Append(@, [name |-> rpcName])],
              LAMBDA called :
                IF response = "ok"
                THEN [called EXCEPT !.call.pc = "return"]
                ELSE IF response = "ACCESS_DENIED"
                THEN handleAccessDenied(called, response)
                ELSE [called EXCEPT !.call.pc = "return",
                                    !.call.raised = Some("error")])

\* getAllSubmissions from the point the call is at up to its next await or
\* its return: init, which returns at once on an initialized manager, then
\* the data procedure through safeRpcCall
getAllSubmissions(s, response) ==
    IF s.call.pc \in {"data", "storageRemove"}
    THEN safeRpcCall(s, "qb_get_all_submissions", response)
    ELSE IF s.call.pc = "start" /\ s.m.initialized
    THEN [s EXCEPT !.call.pc = "data"]
    ELSE init(s, response)

\* the answers of the redeem_voucher procedure: an error, a row with
\* success, a row without it, or no row
RedeemResponses == {"error", "success", "unsuccessful", "invalid"}

\* checkAccess of the popup from the point the call is at up to its next
\* await or its return (pc "checked"): the cached record when it is valid,
\* otherwise check_access; an error of the procedure falls back on the
\* expiry date of the cached record, has_access stores a new record, and
\* any other answer removes the record from the storage.  The popup has no
\* manager: s.m is left alone
popupCheckAccess(s, response) ==
    CASE s.call.pc = "storageRead" ->
            IF response = "throws"
            THEN [s EXCEPT !.call.pc = "checked", !.call.result = FALSE]
            ELSE IF cacheValid(s.cachedAccess)
            THEN [s EXCEPT !.call.cachedAccess = s.cachedAccess,
                           !.call.pc = "checked", !.call.result = TRUE]
            ELSE [s EXCEPT !.call.cachedAccess = s.cachedAccess,
                           !.call.pc = "check_access"]
      [] s.call.pc = "check_access" ->
            With(Append(s.call.calls, [name |-> "check_access"]),
                 LAMBDA calls :
                    IF response = "error"
                    THEN [s EXCEPT !.call.calls = calls,
                                   !.call.pc = "checked",
                                   !.call.result =
                                       /\ s.call.cachedAccess # Null
                                       /\ s.call.cachedAccess[1].current]
                    ELSE IF response = "has_access"
                    THEN [s EXCEPT !.call.calls = calls,
                                   !.call.pc = "storageWrite"]
                    ELSE [s EXCEPT !.call.calls = calls,
                                   !.call.pc = "storageRemove"])
      [] s.call.pc = "storageWrite" ->
            [s EXCEPT !.cachedAccess = Some([current |-> TRUE,
                                             is_revoked |-> FALSE]),
                      !.call.pc = "checked", !.call.result = TRUE]
      [] s.call.pc = "storageRemove" ->
            [s EXCEPT !.cachedAccess = Null,
                      !.call.pc = "checked", !.call.result = FALSE]
      [] OTHER -> s

\* redeemVoucher of the popup: an error of redeem_voucher, a row without
\* success and an answer without rows are thrown; on success the access
\* record is stored after the await of the storage, and the row returned
\* (pc "redeemed")
redeemVoucher(s, response) ==
    IF s.call.pc = "redeem_voucher"
    THEN With([s EXCEPT !.call.calls = Append(@, [name |-> "redeem_voucher"])],
              LAMBDA called :
                IF response = "success"
                THEN [called EXCEPT !.call.pc = "redeemWrite"]
                ELSE [called EXCEPT !.call.pc = "return",
                                    !.call.raised = Some(response)])
    ELSE [s EXCEPT !.cachedAccess = Some([current |-> TRUE,
                                          is_revoked |-> FALSE]),
                   !.call.pc = "redeemed"]

\* initializePopup from its checkAccess on: the popup shows the main
\* content or the access gate
initializePopup(s, response) ==
    With(popupCheckAccess(s, response),
         LAMBDA c : IF c.call.pc = "checked"
                    THEN [c EXCEPT !.call.pc = "return"] ELSE c)

\* handleActivate with a code of five characters or more: redeemVoucher,
\* whose error is caught and shown, and after it checkAccess
handleActivate(s, response) ==
    IF s.call.pc \in {"redeem_voucher", "redeemWrite"}
    THEN With(redeemVoucher(s, response),
              LAMBDA r : IF r.call.pc = "redeemed"
                         THEN [r EXCEPT !.call.pc = "storageRead"] ELSE r)
    ELSE initializePopup(s, response)

\* the answers the await a call is suspended at can get
AccessResponses(pc) ==
    CASE pc = "storageRead"    -> StorageResponses
      [] pc = "check_access"   -> CheckResponses
      [] pc = "data"           -> DataResponses
      [] pc = "redeem_voucher" -> RedeemResponses
      [] OTHER                 -> {"done"}

MaxAccessOps == 5   \* operations called on one manager

MaxAccessCalls == 2 \* operations of the manager suspended at the same time

InitAccess ==
    /\ questions = <<>>
    /\ submissions = <<>>
    /\ bestAnswers = <<>>
    /\ history = <<>>
    /\ rpc = <<>>
    /\ \E cachedAccess \in {Null} \cup {Some(c) : c \in CachedAccesses} :
          op = [name |-> "new", m |-> NewManager, cachedAccess |-> cachedAccess,
                before |-> NewManager, raised |-> Null, checked |-> FALSE]
    /\ ops = 0
    /\ page = NoPage
    /\ pending = <<>>

\* the manager and the storage as the last step left them, with a call
AccessState(call) == [m |-> op.m, cachedAccess |-> op.cachedAccess, call |-> call]

\* the last step of an operation of the manager: the operation returned or
\* raised, or it is suspended at an await
AccessOp(s) ==
    [name |-> IF s.call.pc = "return" THEN s.call.kind ELSE "await",
     of |-> s.call.kind, at |-> s.call.pc,
     m |-> s.m, cachedAccess |-> s.cachedAccess, before |-> s.call.before,
     raised |-> s.call.raised, checked |-> s.call.checked,
     result |-> s.call.result]

\* a data operation of the manager is called and runs to its first await:
\* the await of init, inside which the call is at requireAccess when
\* checkAccess returned at once, or at the read of the storage
GetAllSubmissions ==
    /\ ops < MaxAccessOps
    /\ Len(pending) < MaxAccessCalls
    /\ \E s \in {getAllSubmissions(
                    AccessState(accessCall("getAllSubmissions", op.m)),
                    "call")} :
          /\ op' = AccessOp(s)
          /\ rpc' = s.call.calls
          /\ pending' = Append(pending, s.call)
    /\ ops' = ops + 1
    /\ UNCHANGED <<questions, submissions, bestAnswers, history, page>>

\* hasValidAccess is called: it returns at once when access was checked
\* and granted, and is suspended at the read of the storage otherwise
HasValidAccess ==
    /\ ops < MaxAccessOps
    /\ Len(pending) < MaxAccessCalls
    /\ \E s \in {hasValidAccess(
                    AccessState(accessCall("hasValidAccess", op.m)),
                    "call")} :
          /\ op' = AccessOp(s)
          /\ rpc' = s.call.calls
          /\ pending' = IF s.call.pc = "return" THEN pending
                        ELSE Append(pending, s.call)
    /\ ops' = ops + 1
    /\ UNCHANGED <<questions, submissions, bestAnswers, history, page>>

\* the calls that gave way at an await of a promise already settled (pc
\* "requireAccess") go on before the answer of any other await arrives, in
\* the order they were made
GoesOnFirst(i) ==
    \A j \in 1..Len(pending) :
        pending[j].pc = "requireAccess"
            => pending[i].pc = "requireAccess" /\ i <= j

\* the await an operation of the manager is suspended at is answered: the
\* operation goes on to its next await, returns or raises
AccessAnswered ==
    \E i \in 1..Len(pending) :
        /\ pending[i].kind \in AccessKinds
        /\ GoesOnFirst(i)
        /\ \E response \in AccessResponses(pending[i].pc) :
           \E s \in {CASE pending[i].kind = "getAllSubmissions" ->
                        getAllSubmissions(AccessState(pending[i]), response)
                       [] pending[i].kind = "hasValidAccess" ->
                        hasValidAccess(AccessState(pending[i]), response)
                       [] pending[i].kind = "handleActivate" ->
                        handleActivate(AccessState(pending[i]), response)
                       [] OTHER ->
                        initializePopup(AccessState(pending[i]), response)} :
              /\ op' = AccessOp(s)
              /\ rpc' = s.call.calls
              /\ pending' = IF s.call.pc = "return" THEN WithoutCall(i)
                            ELSE [pending EXCEPT ![i] = s.call]
        /\ UNCHANGED <<questions, submissions, bestAnswers, history, ops, page>>

\* the popup is opened: initializePopup, suspended in checkAccess at the
\* read of the storage
InitializePopup ==
    /\ ops < MaxAccessOps
    /\ Len(pending) < MaxAccessCalls
    /\ \E call \in {[accessCall("initializePopup", op.m) EXCEPT
                        !.pc = "storageRead"]} :
          /\ op' = AccessOp(AccessState(call))
          /\ pending' = Append(pending, call)
    /\ rpc' = <<>>
    /\ ops' = ops + 1
    /\ UNCHANGED <<questions, submissions, bestAnswers, history, page>>

\* the activate button of the popup: handleActivate calls redeemVoucher,
\* suspended at redeem_voucher
RedeemVoucher ==
    /\ ops < MaxAccessOps
    /\ Len(pending) < MaxAccessCalls
    /\ \E call \in {[accessCall("handleActivate", op.m) EXCEPT
                        !.pc = "redeem_voucher"]} :
          /\ op' = AccessOp(AccessState(call))
          /\ pending' = Append(pending, call)
    /\ rpc' = <<>>
    /\ ops' = ops + 1
    /\ UNCHANGED <<questions, submissions, bestAnswers, history, page>>

NextAccess ==
    \/ GetAllSubmissions
    \/ HasValidAccess
    \/ AccessAnswered
    \/ RedeemVoucher
    \/ InitializePopup

SpecAccess == InitAccess /\ [][NextAccess]_vars

(***************************************************************************)
(* Batch runs on a store in which two native ids share a question record   *)
(***************************************************************************)

\* the DOM of a page that shows question 5 only
DomFirst == <<domQuestion(5, TextSum, TypeShortAnswer, Null)>>

\* the DOM after question 5 was revised, question 7 carrying its former text
DomRevised == <<domQuestion(5, TextCapital, TypeMultipleChoice,
                            Some(<<OptParis, OptRome>>)),
                domQuestion(7, TextSum, TypeShortAnswer, Null)>>

\* two earlier runs, on the first page and on the revised quiz
SeedShared ==
    With(storeAfterBatch(EmptyStore, SeedHistory, FALSE, DomFirst),
         LAMBDA store : storeAfterBatch(store, SeedHistory, FALSE, DomRevised))

InitCleanup ==
    /\ questions = SeedShared.questions
    /\ submissions = SeedShared.submissions
    /\ bestAnswers = SeedShared.bestAnswers
    /\ history = SeedHistory
    /\ rpc = <<>>
    /\ op = [name |-> "init"]
    /\ ops = 0
    /\ page = NoPage
    /\ pending = <<>>

NextCleanup ==
    \/ TakeAttempt
    \/ ProcessCanvasSubmissions
    \/ RunProcedureAnswered

SpecCleanup == InitCleanup /\ [][NextCleanup]_vars

(***************************************************************************)
(* ClipboardAuto: start, stop and the poll timer                           *)
(***************************************************************************)

MaxClipboardCalls == 6   \* start() and stop() calls in one behaviour
MaxTicks == 2            \* poll timer callbacks in one behaviour

\* the fields of the ClipboardAuto object literal while the script is being
\* evaluated, before its statement ClipboardAuto.start(); timers are the
\* intervals scheduled in the page, pending the start() calls suspended at
\* their initial scrape.  scriptLoaded tells whether the evaluation of the
\* script has reached its end: until then the class BrowserLogger, declared
\* further down in the same script, is not initialized
InitClipboard ==
    /\ questions = <<>>
    /\ submissions = <<>>
    /\ bestAnswers = <<>>
    /\ history = <<>>
    /\ rpc = <<>>
    /\ op = [name |-> "script", isActive |-> FALSE, pollTimer |-> Null,
             timers |-> {}, pending |-> 0, created |-> 0, ticks |-> 0,
             scriptLoaded |-> FALSE, raised |-> FALSE]
    /\ ops = 0
    /\ page = NoPage
    /\ pending = <<>>

\* start() up to its first await.  The call the script makes while it is
\* evaluated sets isActive and raises in getLogger, where typeof reads the
\* class BrowserLogger before its declaration is evaluated: the promise of
\* the call is rejected, no scrape is awaited and no interval is set; the
\* evaluation then runs to the end of the script, which exposes the object
\* as window.ClipboardAuto.  A call made later does nothing when isActive
\* is set already, and otherwise sets isActive and is suspended at the
\* initial scrape
ClipboardStart ==
    /\ ops < MaxClipboardCalls
    /\ op' = IF ~op.scriptLoaded
             THEN [op EXCEPT !.name = "start", !.isActive = TRUE,
                             !.raised = TRUE, !.scriptLoaded = TRUE]
             ELSE IF op.isActive
             THEN [op EXCEPT !.name = "start", !.raised = FALSE]
             ELSE [op EXCEPT !.name = "start", !.isActive = TRUE,
                             !.raised = FALSE, !.pending = @ + 1]
    /\ ops' = ops + 1
    /\ UNCHANGED <<questions, submissions, bestAnswers, history, rpc, pending, page>>

\* start() after the initial scrape: setInterval, kept in pollTimer
ClipboardStartResume ==
    /\ op.pending > 0
    /\ op' = [op EXCEPT !.name = "startResumed", !.pending = @ - 1,
                        !.raised = FALSE,
                        !.created = @ + 1,
                        !.pollTimer = Some(op.created + 1),
                        !.timers = @ \cup {op.created + 1}]
    /\ UNCHANGED <<questions, submissions, bestAnswers, history, rpc, ops, pending, page>>

\* stop(), called through window.ClipboardAuto: the interval in pollTimer,
\* if any, is cleared
ClipboardStop ==
    /\ ops < MaxClipboardCalls
    /\ op.scriptLoaded
    /\ op' = IF op.pollTimer # Null
             THEN [op EXCEPT !.name = "stop", !.isActive = FALSE,
                             !.raised = FALSE, !.pollTimer = Null,
                             !.timers = @ \ {op.pollTimer[1]}]
             ELSE [op EXCEPT !.name = "stop", !.isActive = FALSE,
                             !.raised = FALSE]
    /\ ops' = ops + 1
    /\ UNCHANGED <<questions, submissions, bestAnswers, history, rpc, pending, page>>

\* a scheduled interval fires and scrapes
ClipboardPoll ==
    /\ op.ticks < MaxTicks
    /\ op.timers # {}
    /\ op' = [op EXCEPT !.name = "poll", !.ticks = @ + 1]
    /\ UNCHANGED <<questions, submissions, bestAnswers, history, rpc, ops, pending, page>>

NextClipboard ==
    \/ ClipboardStart
    \/ ClipboardStartResume
    \/ ClipboardStop
    \/ ClipboardPoll

SpecClipboard == InitClipboard /\ [][NextClipboard]_vars

(***************************************************************************)
(* Properties                                                              *)
(***************************************************************************)

IsSave == op.name = "saveSubmission"
IsBatch == op.name = "processCanvasSubmissionsWithQuestionData"
IsMerge == op.name = "mergeQuestionRecords"
IsDedup == op.name = "deduplicate"

\* the calls of the last operation with the given procedure name
CallsNamed(name) == {i \in 1..Len(rpc) : rpc[i].name = name}

\* the confidences of the stored submissions of one question
ConfidencesOf(h) ==
    {confidenceScore(submissions[i]) :
        i \in {j \in 1..Len(submissions) : submissions[j].question_hash = h}}

IsMaxOf(c, set) == c \in set /\ \A d \in set : ~FracLess(c, d)

\* C1: after any sequence of saveSubmission calls for a question, whatever
\* the order in which the submissions arrive, once a call has returned the
\* stored best answer of the question carries the maximum of the
\* confidences of all submissions saved for it so far; while a call is
\* suspended after its submission was stored, the best answer still carries
\* the maximum over the submissions saved before it, so it never decreases.
C1_BestAnswerIsMaxConfidence ==
    /\ pending = <<>> =>
          \A i \in 1..Len(submissions) :
              LET h == submissions[i].question_hash
              IN  /\ h \in DOMAIN bestAnswers
                  /\ IsMaxOf(bestAnswers[h].confidence_score, ConfidencesOf(h))
    /\ \A k \in 1..Len(pending) :
          \A i \in 1..(pending[k].submissionId - 1) :
              LET h == submissions[i].question_hash
                  before == {confidenceScore(submissions[j]) :
                                j \in {n \in 1..(pending[k].submissionId - 1) :
                                          submissions[n].question_hash = h}}
              IN  /\ h \in DOMAIN bestAnswers
                  /\ IsMaxOf(bestAnswers[h].confidence_score, before)

\* two submissions saved for one question, the second of a lower confidence
\* than the first: the second call has returned without a write and the
\* best answer is still the first
C1_Witness ==
    /\ IsSave
    /\ pending = <<>>
    /\ Len(submissions) = 2
    /\ submissions[1].question_hash = submissions[2].question_hash
    /\ FracLess(confidenceScore(submissions[2]), confidenceScore(submissions[1]))
    /\ bestAnswers[op.questionHash].confidence_score
          = confidenceScore(submissions[1])
    /\ bestAnswers[op.questionHash].source_submission_id = Some(1)

\* a call of saveSubmission or updateBestAnswer returns in this step
SaveReturns ==
    /\ op'.name \in {"saveSubmission", "updateBestAnswer"}
    /\ Len(pending') < Len(pending)

\* C2: updateBestAnswer writes the best answer exactly when
\* qb_get_best_answer returned none for the question or the new confidence
\* is strictly greater than the one it returned; otherwise it makes no
\* write and the stored best answer is left as it is.
C2_WritesIffNoneOrStrictlyGreater ==
    [][SaveReturns =>
         LET h == op'.questionHash
             stored == op'.currentBest
             wrote == \E i \in 1..Len(rpc') :
                         rpc'[i].name = "qb_update_best_answer"
         IN  /\ wrote <=> (stored = Null
                           \/ FracLess(stored[1].confidence_score,
                                       op'.confidence))
             /\ wrote => /\ h \in DOMAIN bestAnswers'
                         /\ bestAnswers'[h].confidence_score = op'.confidence
             /\ ~wrote => /\ bestAnswers' = bestAnswers
                          /\ stored = qbGetBestAnswer(bestAnswers, h)]_vars

\* a submission whose confidence equals the stored one, and no write
C2_Witness ==
    /\ IsSave
    /\ CallsNamed("qb_update_best_answer") = {}
    /\ op.questionHash \in DOMAIN bestAnswers
    /\ bestAnswers[op.questionHash].confidence_score = op.confidence

\* the confidence of a submission as the specification states it
statedConfidence(isCorrect, pointsEarned, pointsPossible) ==
    IF pointsPossible # Null /\ pointsPossible[1] > 0
    THEN FracMax(Zero, FracMin(One,
            Frac(IF pointsEarned = Null THEN 0 ELSE pointsEarned[1],
                 pointsPossible[1])))
    ELSE IF isCorrect = Some(TRUE) THEN One ELSE Zero

\* C8: the confidence updateBestAnswer computes is
\* clamp(pointsEarned / pointsPossible, 0, 1) whenever pointsPossible > 0,
\* pointsEarned = 0 included, and otherwise 1.0 for a correct submission
\* and 0.0 for any other.
C8_ConfidenceIsClampedRatio ==
    IsSave => op.confidence = statedConfidence(op.isCorrect, op.pointsEarned,
                                               op.pointsPossible)

\* full confidence as the specification states it: correct with full
\* points, or correct with no points possible available
statedFullConfidence(isCorrect, pointsEarned, pointsPossible) ==
    \/ /\ isCorrect = Some(TRUE)
       /\ pointsPossible # Null
       /\ pointsEarned = pointsPossible
    \/ /\ pointsPossible = Null
       /\ isCorrect = Some(TRUE)

\* C9: every best answer written, by updateBestAnswer or by the batch, has
\* confidence exactly 1.0 if and only if its source submission is correct
\* with pointsEarned equal to pointsPossible, or pointsPossible is
\* unavailable and the submission is correct.
C9_FullConfidenceIffCorrectWithFullPoints ==
    /\ IsSave =>
          \A i \in CallsNamed("qb_update_best_answer") :
              (rpc[i].row.confidence_score = One)
              <=> statedFullConfidence(op.isCorrect, op.pointsEarned,
                                       op.pointsPossible)
    /\ IsBatch =>
          \A i \in CallsNamed("qb_batch_update_best_answers") :
              \A k \in 1..Len(rpc[i].rows) :
                  LET questionData == rpc[i].rows[k].answer_fields[1]
                  IN  (rpc[i].rows[k].confidence_score = One)
                      <=> statedFullConfidence(
                              IF questionData.correct = "true"
                              THEN Some(TRUE) ELSE Some(FALSE),
                              questionData.points,
                              questionData.points_possible)

\* the candidates of one hash, as indexes of the input
CandidatesOf(h) ==
    {i \in 1..Len(op.bestAnswersToUpdate) :
        op.bestAnswersToUpdate[i].question_hash = h}

\* the first candidate of the hash with the highest confidence
FirstBest(h) ==
    CHOOSE i \in CandidatesOf(h) :
        /\ \A j \in CandidatesOf(h) :
              ~FracLess(op.bestAnswersToUpdate[i].confidence_score,
                        op.bestAnswersToUpdate[j].confidence_score)
        /\ \A j \in CandidatesOf(h) :
              j < i => FracLess(op.bestAnswersToUpdate[j].confidence_score,
                                op.bestAnswersToUpdate[i].confidence_score)

\* C7: deduplication leaves exactly one candidate per question hash: one of
\* the highest confidence among the candidates of the hash, and among
\* those tied at the maximum the first in input order.
C7_DedupKeepsFirstOfHighestConfidence ==
    IsDedup =>
        LET out == op.deduplicatedBestAnswers
            hashes == {op.bestAnswersToUpdate[i].question_hash :
                          i \in 1..Len(op.bestAnswersToUpdate)}
        IN  /\ {out[k].question_hash : k \in 1..Len(out)} = hashes
            /\ \A k, l \in 1..Len(out) :
                  out[k].question_hash = out[l].question_hash => k = l
            /\ \A k \in 1..Len(out) :
                  out[k] = op.bestAnswersToUpdate[FirstBest(out[k].question_hash)]

\* confidences 0.4, 0.9, 0.9 for one hash: the second candidate is kept
C7_Witness ==
    /\ IsDedup
    /\ Len(op.bestAnswersToUpdate) = 3
    /\ \A i \in 1..3 : op.bestAnswersToUpdate[i].question_hash = HashSum
    /\ op.bestAnswersToUpdate[1].confidence_score = Frac(2, 5)
    /\ op.bestAnswersToUpdate[2].confidence_score = Frac(9, 10)
    /\ op.bestAnswersToUpdate[3].confidence_score = Frac(9, 10)
    /\ op.deduplicatedBestAnswers = <<op.bestAnswersToUpdate[2]>>

\* the calls of the last operation that merge old into new
MergeCalls(old, new) ==
    {i \in CallsNamed("qb_merge_question_records") :
        rpc[i].old_hash = old /\ rpc[i].new_hash = new}

BatchWrites ==
    CallsNamed("qb_batch_save_questions")
    \cup CallsNamed("qb_batch_save_submissions")
    \cup CallsNamed("qb_batch_update_best_answers")

\* the candidate of a processed question is of higher quality than the
\* existing record and has another hash
ImprovedWithNewHash(d) ==
    /\ d.existingQuestion # Null
    /\ d.textQuality > d.existingQuestion[1].text_quality_score
    /\ generateQuestionHash(d.candidate.questionText, d.candidate.questionType,
                            d.candidate.options)
          # d.existingQuestion[1].question_hash
    /\ d.candidate.textSource # "placeholder"

\* C3: in a batch run, for every question whose candidate text has strictly
\* higher quality than the existing record found by native id and whose new
\* hash differs from the existing hash, mergeQuestionRecords(oldHash,
\* newHash) is called exactly once, after the batch question, submission
\* and best-answer writes of the run.
C3_MergeCalledOnceAfterBatchWrites ==
    IsBatch =>
        \A k \in 1..Len(op.prep.decisions) :
            LET d == op.prep.decisions[k]
            IN  ImprovedWithNewHash(d) =>
                    LET calls == MergeCalls(d.existingQuestion[1].question_hash,
                                            d.questionHash)
                    IN  /\ Cardinality(calls) = 1
                        /\ \A i \in calls, j \in BatchWrites : j < i

\* C4: after a merge(old, new) the collaborator confirms as successful,
\* every submission and the best answer that referenced old reference new,
\* no submission or best answer references old, and the question record of
\* old is no longer resolvable.
C4_MergeMovesAllReferences ==
    [][(op'.name = "mergeQuestionRecords" /\ ops' = ops + 1 /\ op'.success) =>
         LET old == op'.oldHash
             new == op'.newHash
         IN  /\ Len(submissions') = Len(submissions)
             /\ \A i \in 1..Len(submissions) :
                   submissions'[i].question_hash =
                       IF submissions[i].question_hash = old THEN new
                       ELSE submissions[i].question_hash
             /\ old \in DOMAIN bestAnswers =>
                   /\ new \in DOMAIN bestAnswers'
                   /\ bestAnswers'[new] = bestAnswers[old]
             /\ old \notin DOMAIN bestAnswers'
             /\ \A i \in 1..Len(questions') : questions'[i].question_hash # old
      ]_vars

\* a successful merge that moved submissions and a best answer
C4_Witness ==
    /\ IsMerge
    /\ op.success
    /\ op.updated_submissions > 0
    /\ op.newHash \in DOMAIN bestAnswers
    /\ \E i \in 1..Len(submissions) : submissions[i].question_hash = op.newHash
    /\ \A i \in 1..Len(questions) : questions[i].question_hash # op.oldHash

\* the question rows and submission rows the run prepared for a question
QuestionRowsOf(h) ==
    {i \in 1..Len(op.prep.questionsToSave) :
        op.prep.questionsToSave[i].question_hash = h}

SubmissionRowsOf(questionId) ==
    {i \in 1..Len(op.prep.submissionsToSave) :
        op.prep.submissionsToSave[i].canvas_question_id = questionId}

\* C5: for a question with an existing record, the batch decides exactly
\* one of: keepExisting (no question write, the submission recorded under
\* the existing hash) iff candidate quality <= existing quality;
\* updateInPlace (question written under the unchanged hash, no merge
\* planned) iff the quality is higher and the new hash equals the old one;
\* merge iff the quality is higher and the new hash differs.
C5_MergeDecisionTrichotomy ==
    IsBatch =>
        \A k \in 1..Len(op.prep.decisions) :
            LET d == op.prep.decisions[k]
                old == d.existingQuestion[1].question_hash
                new == IF d.candidate.textSource = "placeholder" THEN old
                       ELSE generateQuestionHash(d.candidate.questionText,
                                d.candidate.questionType, d.candidate.options)
                higher == d.textQuality > d.existingQuestion[1].text_quality_score
                keepExisting ==
                    /\ ~d.shouldSaveQuestion
                    /\ d.oldHashToMerge = Null
                    /\ d.questionHash = old
                updateInPlace ==
                    /\ d.shouldSaveQuestion
                    /\ d.oldHashToMerge = Null
                    /\ d.questionHash = old
                merge ==
                    /\ d.shouldSaveQuestion
                    /\ d.oldHashToMerge = Some(old)
                    /\ d.questionHash = new
                    /\ new # old
            IN  d.existingQuestion # Null =>
                    /\ keepExisting <=> ~higher
                    /\ updateInPlace <=> (higher /\ new = old)
                    /\ merge <=> (higher /\ new # old)
                    /\ \A i \in SubmissionRowsOf(d.questionId) :
                          op.prep.submissionsToSave[i].question_hash = d.questionHash
                    /\ d.shouldSaveQuestion => QuestionRowsOf(d.questionHash) # {}
                    /\ Len(op.prep.questionsToSave) =
                          Cardinality({l \in 1..Len(op.prep.decisions) :
                                          op.prep.decisions[l].shouldSaveQuestion})

\* one run that keeps a record of equal quality and changes the hash of
\* another
C5_Witness ==
    /\ IsBatch
    /\ \E k, l \in 1..Len(op.prep.decisions) :
          LET d == op.prep.decisions[k]
              e == op.prep.decisions[l]
          IN  /\ d.existingQuestion # Null
              /\ d.textQuality = d.existingQuestion[1].text_quality_score
              /\ ~d.shouldSaveQuestion
              /\ e.existingQuestion # Null
              /\ e.oldHashToMerge # Null

\* a run that writes a question of higher quality under its unchanged hash
C5_WitnessInPlace ==
    /\ IsBatch
    /\ \E k \in 1..Len(op.prep.decisions) :
          LET d == op.prep.decisions[k]
          IN  /\ d.existingQuestion # Null
              /\ d.shouldSaveQuestion
              /\ d.oldHashToMerge = Null

\* the attempts of the run's history at the questions stored under a hash
AttemptsOf(h) ==
    LET entries == FlattenEntries(op.submissions)
        ids == {op.prep.decisions[k].questionId :
                   k \in {l \in 1..Len(op.prep.decisions) :
                             op.prep.decisions[l].questionHash = h}}
    IN  {i \in 1..Len(entries) : entries[i].question_id \in ids}

\* C6: after a batch run over a history in which a question was attempted
\* several times, the best answer proposed for the hash of the question has
\* the maximum confidence over all of those attempts and the best answer
\* stored before, not the confidence of one of the attempts only.
C6_BatchBestIsMaxOverAttempts ==
    IsBatch =>
        \A i \in CallsNamed("qb_batch_update_best_answers") :
            \A k \in 1..Len(rpc[i].rows) :
                LET h == rpc[i].rows[k].question_hash
                    entries == FlattenEntries(op.submissions)
                    confidences ==
                        {inlineConfidence(entries[a]) : a \in AttemptsOf(h)}
                        \cup (IF h \in DOMAIN op.storedBest
                              THEN {op.storedBest[h].confidence_score}
                              ELSE {})
                IN  IsMaxOf(rpc[i].rows[k].confidence_score, confidences)

\* the existing records the lookup returned for one native id, and the
\* cleanup merges the run called for it
GroupOf(canvasId) ==
    duplicateGroup(allExistingQuestions(op.prep.existingQuestions), canvasId)

CleanupCalls(canvasId) ==
    {i \in CallsNamed("qb_merge_question_records") :
        rpc[i].phase = "cleanup" /\ rpc[i].canvasId = canvasId}

\* the first record of the group with the highest quality
CanonicalOf(group) ==
    group[CHOOSE i \in 1..Len(group) :
            /\ \A j \in 1..Len(group) :
                  group[j].text_quality_score <= group[i].text_quality_score
            /\ \A j \in 1..(i - 1) :
                  group[j].text_quality_score < group[i].text_quality_score]

\* the cleanup merges the run called, for whichever native id
AllCleanupCalls ==
    {i \in CallsNamed("qb_merge_question_records") : rpc[i].phase = "cleanup"}

\* C10: when the lookup returns more than one existing record for a native
\* id, the record of the highest quality, the first among equals, is kept
\* as canonical, mergeQuestionRecords(duplicate.hash, canonical.hash) is
\* called once for each of the other records, and the canonical record is
\* never the old side of a cleanup merge of the run, be it the cleanup of
\* its own native id or of another.
C10_DuplicatesMergedIntoCanonical ==
    IsBatch =>
        \A canvasId \in QuestionIds :
            LET group == GroupOf(canvasId)
                canonical == CanonicalOf(group)
            IN  Len(group) > 1 =>
                    /\ existingByCanvasId(op.prep.existingQuestions, canvasId)
                          = Some(canonical)
                    /\ \A j \in 1..Len(group) :
                          group[j] # canonical =>
                              Cardinality({i \in CleanupCalls(canvasId) :
                                  /\ rpc[i].old_hash = group[j].question_hash
                                  /\ rpc[i].new_hash = canonical.question_hash})
                              = 1
                    /\ Cardinality(CleanupCalls(canvasId)) = Len(group) - 1
                    /\ \A i \in AllCleanupCalls :
                          rpc[i].old_hash # canonical.question_hash

\* the merge the collaborator reported as failed in the last run
FailedMerge == op.prep.merges[op.failAt]

\* the question records the lookup by native id resolves for one id
RecordsOf(canvasId) ==
    qbGetExistingQuestions(questions, submissions, op.courseId, <<canvasId>>)

\* one record is left for the native id and every submission of the id is
\* stored under it
Consolidated(canvasId) ==
    /\ Len(RecordsOf(canvasId)) = 1
    /\ \A i \in 1..Len(submissions) :
          submissions[i].canvas_question_id = canvasId =>
              submissions[i].question_hash = RecordsOf(canvasId)[1].question_hash

\* C11: if a merge fails during a batch run, running the batch again for
\* the same quiz with a working collaborator meets the leftover old record
\* again and retries its merge, so that eventually a single question record
\* remains for the native question id, holding all the submissions of the
\* old and the new record.  The run again is one called after the failed
\* run has returned, while the session has runs left.
C11_FailedMergeRetriedOnRerun ==
    /\ [][(/\ IsBatch' /\ Len(pending') < Len(pending)
           /\ op'.failedBefore # <<>>
           /\ \E k \in 1..Len(allExistingQuestions(op'.prep.existingQuestions)) :
                 allExistingQuestions(op'.prep.existingQuestions)[k].question_hash
                     = op'.failedBefore[1].oldHash) =>
            \E i \in 1..Len(rpc') :
                /\ rpc'[i].name = "qb_merge_question_records"
                /\ rpc'[i].old_hash = op'.failedBefore[1].oldHash
                /\ rpc'[i].success]_vars
    /\ \A canvasId \in QuestionIds :
          (/\ IsBatch /\ op.failAt > 0 /\ FailedMerge.canvasId = canvasId
           /\ pending = <<>> /\ ops < MaxRuns)
              ~> (/\ IsBatch /\ op.failAt = 0 /\ pending = <<>>
                  /\ Consolidated(canvasId))

\* the hashes a batch run writes to or merges, the failed merge left out
TouchedBesidesFailed(prep, failAt) ==
    {prep.questionsToSave[i].question_hash : i \in 1..Len(prep.questionsToSave)}
    \cup {prep.deduplicatedBestAnswers[i].question_hash :
            i \in 1..Len(prep.deduplicatedBestAnswers)}
    \cup UNION {{prep.merges[i].oldHash, prep.merges[i].newHash} :
                    i \in (1..Len(prep.merges)) \ {failAt}}

\* the i-th suspended call is the one answered in this step
Answered(i) ==
    \/ pending' = WithoutCall(i)
    \/ Len(pending') = Len(pending) /\ pending'[i] # pending[i]

\* the i-th suspended call is a batch run waiting for the answer of the
\* merge call the collaborator reports as failed
AtFailingMerge(i) ==
    /\ pending[i].kind = "processCanvasSubmissionsWithQuestionData"
    /\ pending[i].pc = "merges"
    /\ pending[i].merged + 1 = pending[i].failAt

\* C12: when the collaborator reports a merge as failed, the run goes on:
\* the failed call changes no question record, submission or best answer,
\* so the old record of the failed merge, its submissions and its best
\* answer stay as they were; the run goes on to its next merge, every merge
\* of the run is called, and the calls other than the failed one succeed.
\* A direct mergeQuestionRecords call that is reported as failed changes
\* nothing.
C12_FailedMergeIsSkipped ==
    [][/\ \A i \in 1..Len(pending) :
            (AtFailingMerge(i) /\ Answered(i)) =>
                /\ questions' = questions
                /\ submissions' = submissions
                /\ bestAnswers' = bestAnswers
                /\ pending[i].failAt < Len(pending[i].prep.merges) =>
                      /\ Len(pending') = Len(pending)
                      /\ pending'[i].pc = "merges"
                      /\ pending'[i].merged = pending[i].failAt
       /\ (IsBatch' /\ Len(pending') < Len(pending) /\ op'.failAt > 0) =>
            LET merges == op'.prep.merges
                calls  == SelectSeq(rpc',
                            LAMBDA c : c.name = "qb_merge_question_records")
            IN  /\ Len(calls) = Len(merges)
                /\ \A i \in 1..Len(merges) :
                     /\ calls[i].old_hash = merges[i].oldHash
                     /\ calls[i].new_hash = merges[i].newHash
                     /\ calls[i].success = (i # op'.failAt)
       /\ (IsMerge' /\ ops' = ops + 1 /\ ~op'.success) =>
            /\ questions' = questions
            /\ submissions' = submissions
            /\ bestAnswers' = bestAnswers
            /\ Len(rpc') = 1 /\ ~rpc'[1].success]_vars

\* a batch run whose first merge failed and whose later merge succeeded; the
\* old record of the failed merge is still stored with a submission
C12_Witness ==
    /\ IsBatch
    /\ op.failAt > 0
    /\ op.failAt < Len(op.prep.merges)
    /\ \E i \in CallsNamed("qb_merge_question_records") : rpc[i].success
    /\ LET failed == op.prep.merges[op.failAt]
       IN  /\ failed.oldHash \notin TouchedBesidesFailed(op.prep, op.failAt)
           /\ \E i \in 1..Len(questions) :
                 questions[i].question_hash = failed.oldHash
           /\ \E i \in 1..Len(submissions) :
                 submissions[i].question_hash = failed.oldHash

\* the i-th suspended call is a run of the batch called with the inputs of
\* the run that returned before it, which had no failed merge
SecondRunWithSameInputs(i) ==
    /\ pending[i].kind = "processCanvasSubmissionsWithQuestionData"
    /\ pending[i].repeats

\* C13: running the batch a second time with the same inputs leaves the
\* question records, the submissions and the best answers as the first run
\* left them: no call of the second run changes them
C13_SecondRunChangesNothing ==
    [][\A i \in 1..Len(pending) :
          (SecondRunWithSameInputs(i) /\ Answered(i)) =>
              /\ questions' = questions
              /\ submissions' = submissions
              /\ bestAnswers' = bestAnswers]_vars

\* C14: a merge of the same two hashes called again after it succeeded
\* finds no record, submission or best answer under the old hash and changes
\* nothing: the record, the submissions and the best answer of the new hash
\* are as the first merge left them.  Whatever the procedure answers, with
\* or without the success flag, the call returns that answer and does not
\* end in an error; it raises only when the call to the store itself
\* returns an error.
C14_SecondMergeIsNoOp ==
    [][(IsMerge' /\ ops' = ops + 1 /\ op'.repeats) =>
          /\ questions' = questions
          /\ submissions' = submissions
          /\ bestAnswers' = bestAnswers
          /\ \A i \in 1..Len(rpc') :
                /\ rpc'[i].old_hash = op'.oldHash
                /\ rpc'[i].new_hash = op'.newHash
          /\ Len(rpc') = 1
          /\ op'.raised <=> op'.response = "error"]_vars

\* the second of two merges of the same hashes, the first of which moved
\* the submissions and the best answer to the record of the new hash; the
\* procedure answers the second without the success flag, and the call
\* returns
C14_Witness ==
    /\ IsMerge
    /\ op.repeats
    /\ op.response = "failed"
    /\ ~op.raised
    /\ \A i \in 1..Len(questions) : questions[i].question_hash # op.oldHash
    /\ \E i \in 1..Len(questions) : questions[i].question_hash = op.newHash
    /\ \E i \in 1..Len(submissions) :
          submissions[i].question_hash = op.newHash
    /\ op.newHash \in DOMAIN bestAnswers

\* the decision is taken for a question without an existing record whose
\* candidate text is a placeholder
NewPlaceholder(d) ==
    d.existingQuestion = Null /\ d.candidate.textSource = "placeholder"

\* the decision is taken for a question whose existing record, found by
\* native id, carries the temporary hash, with a candidate of real text
RealTextForTemporary(d) ==
    /\ d.existingQuestion # Null
    /\ d.existingQuestion[1].question_hash
          = temporaryHash(d.questionId, op.courseId)
    /\ d.candidate.textSource # "placeholder"
    /\ d.textQuality > d.existingQuestion[1].text_quality_score

\* C15: a question without an existing record and with placeholder text is
\* stored under the temporary hash built from its native id and the course,
\* not under a hash of the placeholder text, and a later run with real text
\* that finds this record by native id upgrades it through the merge path:
\* it decides to merge the temporary hash into the content hash and calls
\* the merge, after which no question record carries the temporary hash
C15_TemporaryHashUpgradedByMerge ==
    IsBatch =>
        \A k \in 1..Len(op.prep.decisions) :
            LET d == op.prep.decisions[k]
                temp == temporaryHash(d.questionId, op.courseId)
            IN  /\ NewPlaceholder(d) =>
                      /\ d.questionHash = temp
                      /\ d.questionHash
                            # generateQuestionHash(d.candidate.questionText,
                                 d.candidate.questionType, d.candidate.options)
                /\ RealTextForTemporary(d) =>
                      /\ d.oldHashToMerge = Some(temp)
                      /\ MergeCalls(temp, d.questionHash) # {}
                      /\ (op.failAt = 0 =>
                            \A i \in 1..Len(questions) :
                                questions[i].question_hash # temp)

\* the question rows a batch run sends to qb_batch_save_questions
WrittenQuestionRows ==
    IF CallsNamed("qb_batch_save_questions") = {} THEN <<>>
    ELSE rpc[CHOOSE i \in CallsNamed("qb_batch_save_questions") : TRUE].rows

\* the number of question rows written for the first k decisions
WrittenUpTo(k) ==
    Cardinality({j \in 1..k : op.prep.decisions[j].shouldSaveQuestion})

\* C16: whenever a batch run writes a question record for a question found
\* by native id (updated under its hash or written under a new hash to be
\* merged), the first_seen_quiz_id written is that of the existing record,
\* not the quiz id of the run
C16_FirstSeenQuizKept ==
    IsBatch =>
        /\ Len(WrittenQuestionRows) = WrittenUpTo(Len(op.prep.decisions))
        /\ \A k \in 1..Len(op.prep.decisions) :
              LET d == op.prep.decisions[k]
              IN  (d.shouldSaveQuestion /\ d.existingQuestion # Null) =>
                     LET row == WrittenQuestionRows[WrittenUpTo(k)]
                     IN  /\ row.question_hash = d.questionHash
                         /\ row.first_seen_quiz_id
                               = d.existingQuestion[1].first_seen_quiz_id

\* a run for another quiz than the one the record was first seen in writes
\* the record under a new hash and keeps the first quiz
C16_Witness ==
    /\ IsBatch
    /\ \E k \in 1..Len(op.prep.decisions) :
          LET d == op.prep.decisions[k]
          IN  /\ d.shouldSaveQuestion
              /\ d.existingQuestion # Null
              /\ d.oldHashToMerge # Null
              /\ d.existingQuestion[1].first_seen_quiz_id # op.quizId
              /\ WrittenQuestionRows[WrittenUpTo(k)].first_seen_quiz_id
                    # op.quizId

\* C17: across batch runs and saveQuestion calls the text quality score
\* stored for a question record never decreases, and the stored text of a
\* record is replaced only by text of a strictly greater score
C17_StoredQualityNeverDecreases ==
    [][\A i \in 1..Len(questions), j \in 1..Len(questions') :
          questions'[j].question_hash = questions[i].question_hash =>
             /\ questions'[j].text_quality_score
                   >= questions[i].text_quality_score
             /\ questions'[j].question_text # questions[i].question_text
                   => questions'[j].text_quality_score
                         > questions[i].text_quality_score]_vars

IsHash == op.name = "generateQuestionHash" /\ op.previous # <<>>

\* what the hash is stated to depend on: the type, the normalized text and
\* the sorted normalized options (Null when no options are given)
HashKey(call) ==
    << call.questionType,
       CleanText(call.questionText),
       IF call.options = Null THEN Null
       ELSE Some(SortStrings([i \in 1..Len(call.options[1]) |->
                                 NormalizeOption(call.options[1][i])])) >>

\* C18: two calls of generateQuestionHash whose arguments agree on the
\* type, the normalized text and the sorted normalized options return the
\* same hash, whatever the order of the options, the letter case and the
\* length of the whitespace runs of the text (a call without options and a
\* call with an option list are taken to differ in their options)
C18_HashDependsOnNormalizedKey ==
    IsHash =>
        (HashKey(op) = HashKey(op.previous[1])
            => op.result = op.previous[1].result)

\* two calls with texts that differ in case and whitespace and with the
\* same options in another order return the same hash
C18_Witness ==
    /\ IsHash
    /\ op.questionText # op.previous[1].questionText
    /\ op.options # Null
    /\ op.options # op.previous[1].options
    /\ Len(op.options[1]) = 2
    /\ HashKey(op) = HashKey(op.previous[1])
    /\ op.result = op.previous[1].result

\* C19: generateQuestionHash with an empty option list returns the hash it
\* returns without options, for the same text and type
C19_EmptyOptionsAsNoOptions ==
    (/\ IsHash
     /\ op.questionText = op.previous[1].questionText
     /\ op.questionType = op.previous[1].questionType
     /\ op.options = Some(<<>>)
     /\ op.previous[1].options = Null)
        => op.result = op.previous[1].result

\* 1 when the condition holds, 0 otherwise
Indicator(b) == IF b THEN 1 ELSE 0

\* the score as stated: base + min(length, 200) - 50 for 'Question ' and
\* digits - 30 for 'Question ID' + 20 for '?' + 10 for more than 20
\* characters, not below 0
statedTextQuality(text, source) ==
    LET base == CASE source = "dom" -> 100
                  [] source = "canvas_api" -> 50
                  [] source = "placeholder" -> 10
        sum  == base + (IF Len(text) < 200 THEN Len(text) ELSE 200)
                - 50 * Indicator(/\ Len(text) > 9
                                 /\ SubSeq(text, 1, 9) = StrQuestionSp
                                 /\ \A i \in 10..Len(text) : text[i] \in 48..57)
                - 30 * Indicator(\E i \in 1..(Len(text) - 10) :
                                    SubSeq(text, i, i + 10) = StrQuestionID)
                + 20 * Indicator(\E i \in 1..Len(text) : text[i] = 63)
                + 10 * Indicator(Len(text) > 20)
    IN  IF sum > 0 THEN sum ELSE 0

\* C20: calculateTextQuality returns the stated score, which is never
\* negative
C20_TextQualityAsStated ==
    op.name = "calculateTextQuality" =>
        /\ op.result = statedTextQuality(op.questionText, op.source)
        /\ op.result >= 0

\* the score of a placeholder text from the placeholder source, which sums
\* to less than 0 and is returned as 0
C20_Witness ==
    /\ op.name = "calculateTextQuality"
    /\ op.source = "placeholder"
    /\ IsPlaceholderText(op.questionText)
    /\ 10 + Len(op.questionText) - 50 < 0
    /\ op.result = 0

IsQuality == op.name = "calculateTextQuality"

\* C21 as stated: "Question 5" from the placeholder source scores 0 and
\* "What is the capital of France?" from the DOM scores 161
C21_ScoresAsStated ==
    IsQuality =>
        /\ (op.questionText = TextQuestion5 /\ op.source = "placeholder")
              => op.result = 0
        /\ (op.questionText = TextWhatCapital /\ op.source = "dom")
              => op.result = 161

\* C21: "Question 5" from the placeholder source scores 0 and "What is the
\* capital of France?", a text of 30 characters, scores 100 + 30 + 20 + 10
\* = 160 from the DOM, so the placeholder scores strictly lower
C21_ScoresOfTheExample ==
    IsQuality =>
        /\ (op.questionText = TextQuestion5 /\ op.source = "placeholder")
              => /\ op.result = 0
                 /\ op.result < calculateTextQuality(TextWhatCapital, "dom")
        /\ (op.questionText = TextWhatCapital /\ op.source = "dom")
              => /\ Len(op.questionText) = 30
                 /\ op.result = 160
                 /\ calculateTextQuality(TextQuestion5, "placeholder")
                       < op.result

\* the score of "What is the capital of France?" from the DOM was computed
C21_Witness ==
    /\ IsQuality
    /\ op.questionText = TextWhatCapital
    /\ op.source = "dom"
    /\ op.result > 0

\* C22: generateQuestionHash and calculateTextQuality return no hash and no
\* score for an empty question text, and generateQuestionHash returns no
\* hash for an empty question type: such a call ends in an error
C22_EmptyTextOrTypeRejected ==
    /\ op.name = "generateQuestionHash"
          => op.questionText # <<>> /\ op.questionType # <<>>
    /\ op.name = "calculateTextQuality" => op.questionText # <<>>

\* C23: when the best-answer update of saveSubmission, the batch update of
\* the best answers or a merge of the batch fails, the submissions of the
\* operation are stored all the same, the operation does not report the
\* failure to its caller, and on the page the enhanced answers are still
\* displayed
C23_BestAnswerFailureIsContained ==
    /\ (op.name = "saveSubmission" /\ op.failed # "none") =>
          /\ op.submissionId <= Len(submissions)
          /\ submissions[op.submissionId].question_hash = op.questionHash
          /\ ~op.raised
    /\ (/\ op.name = "enhancedMain"
        /\ op.failed \in {"qb_batch_update_best_answers",
                          "qb_merge_question_records"}) =>
          /\ Len(op.saved) = Len(op.submissionsToSave)
          /\ \A k \in 1..Len(op.saved) :
                /\ op.saved[k].id <= Len(submissions)
                /\ submissions[op.saved[k].id].canvas_question_id
                      = op.submissionsToSave[k].canvas_question_id
          /\ ~op.raised
          /\ (op.currentQuestions > 0 => op.displayed)

\* the runs of enhancedMain that have started and not returned
InFlight == {i \in 1..Len(pending) : pending[i].kind = "enhancedMain"}

\* C24: within one tab at most one run of the capture flow is in flight at
\* any time, so the writes of two runs are never interleaved
C24_OneRunInFlight ==
    Cardinality(InFlight) <= 1

\* the entries of the history for a question, all attempts having data
EntriesOf(questionId) ==
    SelectSeq(FlattenEntries(history), LAMBDA e : e.question_id = questionId)

\* C25: for every question of a submission history in which every attempt
\* carries data, when at least one attempt of the question was correct the
\* bestAnswer getCorrectAnswers returns for it is a correct attempt
C25_BestAnswerIsCorrectAttempt ==
    (/\ op.name = "getCorrectAnswers"
     /\ \A i \in 1..Len(history) : history[i].submission_data # Null) =>
        \A questionId \in QuestionIds :
            (\E k \in 1..Len(EntriesOf(questionId)) :
                 EntriesOf(questionId)[k].correct = "true")
              => /\ ~op.raised
                 /\ op.result # Null
                 /\ op.result[1][questionId] # Null
                 /\ op.result[1][questionId][1].bestAnswer.correct
                       = Some("true")

\* the data procedures (qb_*) among the calls of the last operation
DataCalls == {i \in 1..Len(rpc) : rpc[i].name = "qb_get_all_submissions"}

\* C26: a data operation that starts while hasAccess is false checks access
\* again, and it calls no data procedure unless that check succeeded;
\* otherwise it raises ACCESS_REQUIRED
C26_NoDataCallWithoutAccess ==
    (op.name = "getAllSubmissions" /\ ~op.before.hasAccess)
        => /\ op.checked
           /\ DataCalls # {} => op.m.initialized /\ op.raised # Some("ACCESS_REQUIRED")
           /\ DataCalls = {} => op.raised = Some("ACCESS_REQUIRED")

\* C27: in a batch run, the confidence computed inline for an entry of the
\* history equals the confidence updateBestAnswer computes from the
\* submission row the same run prepares for that entry
C27_InlineConfidenceMatchesStored ==
    IsBatch =>
        /\ Len(op.prep.bestAnswersToUpdate) = Len(op.prep.submissionsToSave)
        /\ \A i \in 1..Len(op.prep.submissionsToSave) :
              op.prep.bestAnswersToUpdate[i].confidence_score
                  = confidenceScore(op.prep.submissionsToSave[i])

\* the best answer rows the last batch run sent
SentBestAnswers ==
    UNION {{rpc[c].rows[i] : i \in 1..Len(rpc[c].rows)} :
             c \in CallsNamed("qb_batch_update_best_answers")}

\* the position, among the entries of the run, of the submission stored
\* under the given id
EntryOfSubmission(id) == IF op.saved = <<>> THEN 0 ELSE id - op.saved[1].id + 1

\* C28: a best answer sent by a batch run with a source_submission_id refers
\* to the submission stored from the entry whose answer the best answer copies
C28_SourceSubmissionIsOwnEntry ==
    IsBatch =>
        \A row \in SentBestAnswers :
            row.source_submission_id # Null =>
                LET k == EntryOfSubmission(row.source_submission_id[1])
                IN  /\ k \in 1..Len(op.prep.submissionsToSave)
                    /\ op.prep.bestAnswersToUpdate[k].answer_fields = row.answer_fields
                    /\ op.prep.submissionsToSave[k].user_answer = row.answer_text
                    /\ submissions[row.source_submission_id[1]].user_answer
                          = row.answer_text

\* the merge calls of the last batch run, in order
MergeCallsOfRun == SelectSeq(rpc, LAMBDA c : c.name = "qb_merge_question_records")

QuestionHashes == {questions[i].question_hash : i \in 1..Len(questions)}

\* C29: within one batch run no merge targets a hash that an earlier
\* successful merge of the run retired, and after the run every submission
\* and best answer of a hash the run merged refers to a stored question
C29_NoMergeIntoRetiredHash ==
    IsBatch =>
        /\ \A i, j \in 1..Len(MergeCallsOfRun) :
              (i < j /\ MergeCallsOfRun[i].success)
                  => MergeCallsOfRun[j].new_hash # MergeCallsOfRun[i].old_hash
        /\ \A i \in 1..Len(MergeCallsOfRun) :
              MergeCallsOfRun[i].success =>
                 /\ \A s \in 1..Len(submissions) :
                       submissions[s].question_hash # MergeCallsOfRun[i].old_hash
                 /\ MergeCallsOfRun[i].old_hash \notin DOMAIN bestAnswers

\* C30: under any interleaving of start() and stop() calls at most one poll
\* timer is scheduled at any time, and once every call has returned
\* isActive is false exactly when no timer is scheduled
C30_OnePollTimer ==
    /\ Cardinality(op.timers) <= 1
    /\ op.pending = 0 => (~op.isActive <=> op.timers = {})

====
